---- MODULE Spec2Model ----
(***************************************************************************)
(* Model of the LLM tool-calling / response-normalization pipeline of the  *)
(* food-ordering backend: DatabaseTools and LLMToolsIntegration            *)
(* (llm_tools.py) and the /generate_options normalizer (app.py).           *)
(***************************************************************************)
EXTENDS Integers, Sequences, FiniteSets, TLC

-----------------------------------------------------------------------------
(* Bounds of the model *)

\* rows a catalog table holds at most in the DatabaseTools specification
MaxRows == 51
\* tool calls in the agent's first reply
MaxToolCalls == 2
\* entries of the agent's final `recommendations` list
MaxRecs == 2

-----------------------------------------------------------------------------
(* Program constants: the row caps of the DatabaseTools queries *)

CapSearchRestaurants == 20
CapRestaurantMenu == 50
CapSearchMenuItems == 30
CapPopularCuisines == 20
CapUserOrderHistory == 20
CapUserFavoriteCuisines == 10
CapSimilarRestaurants == 10
CapSearchByIngredients == 20
CapPopularIngredients == 30

-----------------------------------------------------------------------------
(* JSON argument values, as json.loads hands them to the handlers.  Every   *)
(* value is a record of the same shape: t is the Python type.              *)

VStr(s) == [t |-> "str", s |-> s, n |-> 0, l |-> <<>>]
VInt(n) == [t |-> "int", s |-> "", n |-> n, l |-> <<>>]
VList(l) == [t |-> "list", s |-> "", n |-> 0, l |-> l]
VBool(b) == [t |-> "bool", s |-> "", n |-> IF b THEN 1 ELSE 0, l |-> <<>>]
VNone == [t |-> "none", s |-> "", n |-> 0, l |-> <<>>]
\* the id string of row n of a table
VId(n) == [t |-> "str", s |-> "id", n |-> n, l |-> <<>>]

\* Python truthiness of a value (`if cuisine_type:`, `if not ingredients:`)
Truthy(v) ==
    CASE v.t = "str" -> v.s # ""
      [] v.t = "int" -> v.n # 0
      [] v.t = "bool" -> v.n # 0
      [] v.t = "list" -> v.l # <<>>
      [] OTHER -> FALSE

Min(a, b) == IF a <= b THEN a ELSE b

-----------------------------------------------------------------------------
(* The catalog.  A text column is a string; Words gives the substrings of  *)
(* it that the model's search terms can hit ('%term%').                    *)

Words(s) ==
    CASE s = "Pizza Hut" -> {"pizza", "hut"}
      [] s = "Pizza Roma" -> {"pizza", "roma"}
      [] s = "Sushi Bar" -> {"sushi", "bar"}
      [] s = "Margherita" -> {"margherita"}
      [] s = "Pepperoni" -> {"pepperoni"}
      [] s = "Salmon Roll" -> {"salmon", "roll"}
      [] s = "Italian" -> {"italian"}
      [] s = "Japanese" -> {"japanese"}
      [] s = "Entrees" -> {"entrees"}
      [] s = "tomato" -> {"tomato"}
      [] s = "rice" -> {"rice"}
      [] OTHER -> {}

\* column LIKE '%' || str(v) || '%'  (the f-string formats any value)
Like(column, v) ==
    IF v.t = "str" THEN v.s = "" \/ v.s \in Words(column) ELSE FALSE

\* column = ?  for an id column
IdEq(column, v) == v.t = "str" /\ v.s = "id" /\ v.n = column

RestaurantNames == <<"Pizza Hut", "Pizza Roma", "Sushi Bar">>
Cuisines == <<"Italian", "Italian", "Japanese">>
ItemNames == <<"Margherita", "Pepperoni", "Salmon Roll">>
IngredientNames == <<"tomato", "rice">>
Categories == <<"vegetable", "grain">>

Cyc(seq, i) == seq[((i - 1) % Len(seq)) + 1]

\* A catalog of n restaurants, menu items, orders and ingredients.  Every
\* menu item is of restaurant 1 and every order is of user 1; restaurant 1
\* stocks every ingredient and every restaurant stocks ingredient 1.
Catalog(n) ==
    [restaurants |-> [i \in 1..n |->
         [restaurant_id |-> i, name |-> Cyc(RestaurantNames, i),
          cuisine |-> IF i <= 3 THEN Cuisines[i]
                      ELSE IF i % 2 = 1 THEN "Italian" ELSE "cuisine" \o ToString(i)]],
     menu_items |-> [i \in 1..n |->
         [item_id |-> i, name |-> Cyc(ItemNames, i), price |-> 5 * i,
          section |-> "Entrees", restaurant_id |-> 1]],
     orders |-> [i \in 1..n |->
         [order_id |-> i, user_id |-> 1, restaurant_id |-> i, created_at |-> i]],
     ingredients |-> [i \in 1..n |->
         [ingredient_id |-> i, name |-> Cyc(IngredientNames, i),
          category |-> Cyc(Categories, i)]],
     restaurant_ingredients |->
         [i \in 1..n |-> [restaurant_id |-> 1, ingredient_id |-> i]]
         \o [i \in 1..(IF n = 0 THEN 0 ELSE n - 1) |-> [restaurant_id |-> i + 1, ingredient_id |-> 1]]]

-----------------------------------------------------------------------------
(* DatabaseTools (llm_tools.py).  db is [status, t]: t the tables, status   *)
(* "ok", "locked" (cursor.execute raises sqlite3.OperationalError) or       *)
(* "unopenable" (sqlite3.connect raises).  A method answers with            *)
(* [kind, rows, queries, msg]: kind "rows" (a list of row dictionaries),    *)
(* "error" (the {"error": ...} dictionary of its except clause) or "raise"  *)
(* (an exception leaves the method); queries counts the cursor.execute      *)
(* calls it issued.  A row keeps the columns the model reads.               *)

Rows(rows, q) == [kind |-> "rows", rows |-> rows, queries |-> q, msg |-> ""]
Err(q) == [kind |-> "error", rows |-> <<>>, queries |-> q, msg |-> "str(e)"]
Raise(q) == [kind |-> "raise", rows |-> <<>>, queries |-> q, msg |-> ""]

\* no call has been made
NotRun == [kind |-> "", rows |-> <<>>, queries |-> 0, msg |-> ""]

Row(id, label, restaurant) == [id |-> id, label |-> label, restaurant |-> restaurant]

Idx(n) == [i \in 1..n |-> i]

\* SQLite's LIMIT n: a negative n means no upper bound on the rows
SqlLimit(rows, n) == IF n < 0 THEN rows ELSE SubSeq(rows, 1, Min(n, Len(rows)))

\* min(limit, cap) raises TypeError unless limit is a number
LimitIsNumber(v) == v.t \in {"int", "bool"}

\* ORDER BY key DESC over <<key, row>> pairs (stable)
RECURSIVE InsertDesc(_, _)
InsertDesc(sorted, p) ==
    IF sorted = <<>> THEN <<p>>
    ELSE IF Head(sorted)[1] >= p[1] THEN <<Head(sorted)>> \o InsertDesc(Tail(sorted), p)
    ELSE <<p>> \o sorted

RECURSIVE OrderByDesc(_)
OrderByDesc(pairs) ==
    IF pairs = <<>> THEN <<>>
    ELSE InsertDesc(OrderByDesc(SubSeq(pairs, 1, Len(pairs) - 1)), pairs[Len(pairs)])

Project(pairs) == [i \in 1..Len(pairs) |-> pairs[i][2]]

RestaurantOf(db, rid) ==
    LET hit == SelectSeq(db.t.restaurants, LAMBDA r : r.restaurant_id = rid)
    IN  IF hit = <<>> THEN "" ELSE hit[1].name

HasRestaurant(db, rid) == \E i \in 1..Len(db.t.restaurants) : db.t.restaurants[i].restaurant_id = rid

search_restaurants(db, a) ==
    IF db.status = "unopenable" THEN Raise(0)
    ELSE IF ~LimitIsNumber(a.limit) THEN Err(0)
    ELSE IF db.status = "locked" THEN Err(1)
    ELSE LET hit == SelectSeq(db.t.restaurants, LAMBDA r :
                        /\ Like(r.name, a.search_term)
                        /\ (Truthy(a.cuisine_type) => Like(r.cuisine, a.cuisine_type)))
             out == [i \in 1..Len(hit) |-> Row(hit[i].restaurant_id, hit[i].name, hit[i].name)]
         IN  Rows(SqlLimit(out, Min(a.limit.n, CapSearchRestaurants)), 1)

get_restaurant_menu(db, a) ==
    IF db.status = "unopenable" THEN Raise(0)
    ELSE IF ~LimitIsNumber(a.limit) THEN Err(0)
    ELSE IF db.status = "locked" THEN Err(1)
    ELSE LET hit == SelectSeq(db.t.menu_items, LAMBDA m : IdEq(m.restaurant_id, a.restaurant_id))
             out == [i \in 1..Len(hit) |-> Row(hit[i].item_id, hit[i].name, "")]
         IN  Rows(SqlLimit(out, Min(a.limit.n, CapRestaurantMenu)), 1)

\* mi.price <= ?: SQLite orders every number before every text value
PriceLe(price, v) ==
    CASE v.t \in {"int", "bool"} -> price <= v.n
      [] v.t = "str" -> TRUE
      [] OTHER -> FALSE

search_menu_items(db, a) ==
    IF db.status = "unopenable" THEN Raise(0)
    ELSE IF ~LimitIsNumber(a.limit) THEN Err(0)
    ELSE IF db.status = "locked" \/ a.max_price.t = "list" THEN Err(1)
    ELSE LET hit == SelectSeq(db.t.menu_items, LAMBDA m :
                        /\ HasRestaurant(db, m.restaurant_id)
                        /\ Like(m.name, a.search_term)
                        /\ (a.max_price.t # "none" => PriceLe(m.price, a.max_price))
                        /\ (Truthy(a.section) => Like(m.section, a.section)))
             out == [i \in 1..Len(hit) |->
                        Row(hit[i].item_id, hit[i].name, RestaurantOf(db, hit[i].restaurant_id))]
         IN  Rows(SqlLimit(out, Min(a.limit.n, CapSearchMenuItems)), 1)

\* GROUP BY cuisine over a sequence of cuisines: <<count, cuisine>> pairs in
\* first-occurrence order, the empty cuisine left out
CuisineGroups(cs) ==
    LET first == SelectSeq(Idx(Len(cs)), LAMBDA i :
                     cs[i] # "" /\ \A j \in 1..(i - 1) : cs[j] # cs[i])
    IN  [g \in 1..Len(first) |->
            <<Cardinality({j \in 1..Len(cs) : cs[j] = cs[first[g]]}),
              Row(Cardinality({j \in 1..Len(cs) : cs[j] = cs[first[g]]}), cs[first[g]], "")>>]

get_popular_cuisines(db, a) ==
    IF db.status = "unopenable" THEN Raise(0)
    ELSE IF ~LimitIsNumber(a.limit) THEN Err(0)
    ELSE IF db.status = "locked" THEN Err(1)
    ELSE LET cs == [i \in 1..Len(db.t.restaurants) |-> db.t.restaurants[i].cuisine]
             out == Project(OrderByDesc(CuisineGroups(cs)))
         IN  Rows(SqlLimit(out, Min(a.limit.n, CapPopularCuisines)), 1)

get_user_order_history(db, a) ==
    IF db.status = "unopenable" THEN Raise(0)
    ELSE IF ~LimitIsNumber(a.limit) THEN Err(0)
    ELSE IF db.status = "locked" THEN Err(1)
    ELSE LET hit == SelectSeq(db.t.orders, LAMBDA o :
                        IdEq(o.user_id, a.user_id) /\ HasRestaurant(db, o.restaurant_id))
             pairs == [i \in 1..Len(hit) |->
                        <<hit[i].created_at,
                          Row(hit[i].order_id, "", RestaurantOf(db, hit[i].restaurant_id))>>]
         IN  Rows(SqlLimit(Project(OrderByDesc(pairs)), Min(a.limit.n, CapUserOrderHistory)), 1)

CuisineOf(db, rid) ==
    LET hit == SelectSeq(db.t.restaurants, LAMBDA r : r.restaurant_id = rid)
    IN  IF hit = <<>> THEN "" ELSE hit[1].cuisine

get_user_favorite_cuisines(db, a) ==
    IF db.status = "unopenable" THEN Raise(0)
    ELSE IF ~LimitIsNumber(a.limit) THEN Err(0)
    ELSE IF db.status = "locked" THEN Err(1)
    ELSE LET hit == SelectSeq(db.t.orders, LAMBDA o :
                        IdEq(o.user_id, a.user_id) /\ HasRestaurant(db, o.restaurant_id))
             cs == [i \in 1..Len(hit) |-> CuisineOf(db, hit[i].restaurant_id)]
             out == Project(OrderByDesc(CuisineGroups(cs)))
         IN  Rows(SqlLimit(out, Min(a.limit.n, CapUserFavoriteCuisines)), 1)

get_similar_restaurants(db, a) ==
    IF db.status = "unopenable" THEN Raise(0)
    ELSE IF db.status = "locked" THEN Err(1)
    ELSE LET ref == SelectSeq(db.t.restaurants, LAMBDA r : IdEq(r.restaurant_id, a.restaurant_id))
         IN  IF ref = <<>> THEN Rows(<<>>, 1)
             ELSE IF ~LimitIsNumber(a.limit) THEN Err(1)
             ELSE LET hit == SelectSeq(db.t.restaurants, LAMBDA r :
                                 r.cuisine = ref[1].cuisine /\ ~IdEq(r.restaurant_id, a.restaurant_id))
                      out == [i \in 1..Len(hit) |-> Row(hit[i].restaurant_id, hit[i].name, hit[i].name)]
                  IN  Rows(SqlLimit(out, Min(a.limit.n, CapSimilarRestaurants)), 2)

IngredientRow(db, iid) ==
    SelectSeq(db.t.ingredients, LAMBDA g : g.ingredient_id = iid)

\* ORDER BY i.category, i.name is left out: the model reads the number of
\* rows of this result, never their order.
get_restaurant_ingredients(db, a) ==
    IF db.status = "unopenable" THEN Raise(0)
    ELSE IF db.status = "locked" THEN Err(1)
    ELSE LET hit == SelectSeq(db.t.restaurant_ingredients, LAMBDA ri :
                        IdEq(ri.restaurant_id, a.restaurant_id) /\ IngredientRow(db, ri.ingredient_id) # <<>>)
             out == [i \in 1..Len(hit) |->
                        Row(hit[i].ingredient_id, IngredientRow(db, hit[i].ingredient_id)[1].name, "")]
         IN  Rows(out, 1)

\* the distinct ingredients of restaurant rid whose name is in the list
MatchCount(db, rid, names) ==
    Cardinality({ri.ingredient_id : ri \in
        {db.t.restaurant_ingredients[i] : i \in
            {j \in 1..Len(db.t.restaurant_ingredients) :
                /\ db.t.restaurant_ingredients[j].restaurant_id = rid
                /\ \E g \in 1..Len(db.t.ingredients) :
                     /\ db.t.ingredients[g].ingredient_id = db.t.restaurant_ingredients[j].ingredient_id
                     /\ \E k \in 1..Len(names) : names[k] = db.t.ingredients[g].name}}})

search_by_ingredients(db, a) ==
    IF ~Truthy(a.ingredients) THEN Rows(<<>>, 0)
    ELSE IF db.status = "unopenable" THEN Raise(0)
    ELSE IF a.ingredients.t # "list" \/ ~LimitIsNumber(a.limit) THEN Err(0)
    ELSE IF db.status = "locked" THEN Err(1)
    ELSE LET hit == SelectSeq(db.t.restaurants, LAMBDA r :
                        /\ MatchCount(db, r.restaurant_id, a.ingredients.l) > 0
                        /\ (Truthy(a.match_all) =>
                              MatchCount(db, r.restaurant_id, a.ingredients.l) = Len(a.ingredients.l)))
             pairs == [i \in 1..Len(hit) |->
                        <<MatchCount(db, hit[i].restaurant_id, a.ingredients.l),
                          Row(hit[i].restaurant_id, hit[i].name, hit[i].name)>>]
         IN  Rows(SqlLimit(Project(OrderByDesc(pairs)), Min(a.limit.n, CapSearchByIngredients)), 1)

get_popular_ingredients(db, a) ==
    IF db.status = "unopenable" THEN Raise(0)
    ELSE IF ~LimitIsNumber(a.limit) THEN Err(0)
    ELSE IF db.status = "locked" THEN Err(1)
    ELSE LET hit == SelectSeq(db.t.ingredients, LAMBDA g :
                        /\ \E j \in 1..Len(db.t.restaurant_ingredients) :
                               db.t.restaurant_ingredients[j].ingredient_id = g.ingredient_id
                        /\ (Truthy(a.category) => (a.category.t = "str" /\ g.category = a.category.s)))
             pairs == [i \in 1..Len(hit) |->
                        <<Cardinality({j \in 1..Len(db.t.restaurant_ingredients) :
                              db.t.restaurant_ingredients[j].ingredient_id = hit[i].ingredient_id}),
                          Row(hit[i].ingredient_id, hit[i].name, "")>>]
         IN  Rows(SqlLimit(Project(OrderByDesc(pairs)), Min(a.limit.n, CapPopularIngredients)), 1)


-----------------------------------------------------------------------------
(* LLMToolsIntegration.execute_tool_call.  A tool call request is          *)
(* [id, name, arguments]; arguments is [json, kw]: json says what           *)
(* json.loads makes of the argument text ("invalid": it raises,            *)
(* "object": a dictionary, "nonobject": another JSON value) and kw is the   *)
(* dictionary, a sequence of [k, v] entries.                               *)

Arg(k, v) == [k |-> k, v |-> v]
Keys(kw) == {kw[i].k : i \in 1..Len(kw)}
Get(kw, k) == LET hit == SelectSeq(kw, LAMBDA e : e.k = k) IN hit[Len(hit)].v

\* the names the dispatcher of execute_tool_call knows
DispatchNames ==
    {"search_restaurants", "get_restaurant_menu", "search_menu_items",
     "get_popular_cuisines", "get_user_order_history", "get_user_favorite_cuisines",
     "get_similar_restaurants", "search_by_ingredients", "get_restaurant_ingredients",
     "get_popular_ingredients"}

\* the handlers' signatures: the parameters and their defaults
HandlerDefaults(name) ==
    CASE name = "search_restaurants" -> <<Arg("cuisine_type", VNone), Arg("limit", VInt(5))>>
      [] name = "get_restaurant_menu" -> <<Arg("limit", VInt(10))>>
      [] name = "search_menu_items" ->
             <<Arg("max_price", VNone), Arg("section", VNone), Arg("limit", VInt(10))>>
      [] name = "get_popular_cuisines" -> <<Arg("limit", VInt(10))>>
      [] name = "get_user_order_history" -> <<Arg("limit", VInt(5))>>
      [] name = "get_user_favorite_cuisines" -> <<Arg("limit", VInt(3))>>
      [] name = "get_similar_restaurants" -> <<Arg("limit", VInt(3))>>
      [] name = "search_by_ingredients" -> <<Arg("match_all", VBool(FALSE)), Arg("limit", VInt(5))>>
      [] name = "get_popular_ingredients" -> <<Arg("category", VNone), Arg("limit", VInt(10))>>
      [] OTHER -> <<>>

HandlerRequired(name) ==
    CASE name \in {"search_restaurants", "search_menu_items"} -> {"search_term"}
      [] name \in {"get_restaurant_menu", "get_similar_restaurants", "get_restaurant_ingredients"} ->
             {"restaurant_id"}
      [] name \in {"get_user_order_history", "get_user_favorite_cuisines"} -> {"user_id"}
      [] name = "search_by_ingredients" -> {"ingredients"}
      [] OTHER -> {}

HandlerParams(name) == HandlerRequired(name) \cup Keys(HandlerDefaults(name))

\* Python's binding of handler(**function_args): TypeError on a keyword the
\* handler does not take or a parameter without default that is not given
BindsOk(name, kw) ==
    /\ Keys(kw) \subseteq HandlerParams(name)
    /\ HandlerRequired(name) \subseteq Keys(kw)

Bound(name, kw) == [p \in HandlerParams(name) |-> Get(HandlerDefaults(name) \o kw, p)]

\* self.tools: the schemas advertised to the agent, a parameter's declared
\* JSON type as the value of its entry
ToolProperties(name) ==
    CASE name = "search_restaurants" ->
             <<Arg("search_term", "string"), Arg("cuisine_type", "string"), Arg("limit", "integer")>>
      [] name = "search_by_ingredients" ->
             <<Arg("ingredients", "array"), Arg("match_all", "boolean"), Arg("limit", "integer")>>
      [] name = "get_restaurant_ingredients" -> <<Arg("restaurant_id", "string")>>
      [] name = "get_popular_ingredients" -> <<Arg("category", "string"), Arg("limit", "integer")>>
      [] name = "get_restaurant_menu" -> <<Arg("restaurant_id", "string"), Arg("limit", "integer")>>
      [] name = "search_menu_items" ->
             <<Arg("search_term", "string"), Arg("max_price", "number"),
               Arg("section", "string"), Arg("limit", "integer")>>
      [] name = "get_popular_cuisines" -> <<Arg("limit", "integer")>>
      [] name = "get_user_order_history" -> <<Arg("user_id", "string"), Arg("limit", "integer")>>
      [] name = "get_user_favorite_cuisines" -> <<Arg("user_id", "string"), Arg("limit", "integer")>>
      [] name = "get_similar_restaurants" -> <<Arg("restaurant_id", "string"), Arg("limit", "integer")>>
      [] OTHER -> <<>>

\* (mutant) every declared parameter is listed as required
ToolRequired_AllDeclared(name) == Keys(ToolProperties(name))

ToolRequired(name) ==
    CASE name \in {"search_restaurants", "search_menu_items"} -> {"search_term"}
      [] name = "search_by_ingredients" -> {"ingredients"}
      [] name \in {"get_restaurant_ingredients", "get_restaurant_menu", "get_similar_restaurants"} ->
             {"restaurant_id"}
      [] name \in {"get_user_order_history", "get_user_favorite_cuisines"} -> {"user_id"}
      [] OTHER -> {}

ToolNames ==
    {"search_restaurants", "search_by_ingredients", "get_restaurant_ingredients",
     "get_popular_ingredients", "get_restaurant_menu", "search_menu_items",
     "get_popular_cuisines", "get_user_order_history", "get_user_favorite_cuisines",
     "get_similar_restaurants"}

Handler(db, name, a) ==
    CASE name = "search_restaurants" -> search_restaurants(db, a)
      [] name = "get_restaurant_menu" -> get_restaurant_menu(db, a)
      [] name = "search_menu_items" -> search_menu_items(db, a)
      [] name = "get_popular_cuisines" -> get_popular_cuisines(db, a)
      [] name = "get_user_order_history" -> get_user_order_history(db, a)
      [] name = "get_user_favorite_cuisines" -> get_user_favorite_cuisines(db, a)
      [] name = "get_similar_restaurants" -> get_similar_restaurants(db, a)
      [] name = "search_by_ingredients" -> search_by_ingredients(db, a)
      [] name = "get_restaurant_ingredients" -> get_restaurant_ingredients(db, a)
      [] name = "get_popular_ingredients" -> get_popular_ingredients(db, a)

execute_tool_call(db, tc) ==
    IF tc.arguments.json = "invalid" THEN Raise(0)
    ELSE IF tc.name \notin DispatchNames
         THEN [kind |-> "error", rows |-> <<>>, queries |-> 0, msg |-> "Unknown function: " \o tc.name]
    ELSE IF tc.arguments.json # "object" THEN Raise(0)
    ELSE IF ~BindsOk(tc.name, tc.arguments.kw) THEN Raise(0)
    ELSE Handler(db, tc.name, Bound(tc.name, tc.arguments.kw))


-----------------------------------------------------------------------------
(* LLMToolsIntegration.generate_recommendations: one recommendation        *)
(* request.  The reasoning agent is external: its replies are inputs.      *)

VARIABLES
    db,              \* the data store: [status, t]
    pc,              \* the orchestrator's position
    messages,        \* the conversation transcript
    tool_calls,      \* assistant_message.tool_calls of the first reply
    tool_results,    \* the tool_results list of the round
    final_response,  \* the agent's reply to the final request
    result,          \* the value generate_recommendations returned
    agent_calls,     \* chat.completions.create calls issued so far
    final_requests,  \* of these, the calls made with the JSON-format prompt
    queries,         \* cursor.execute calls issued so far
    executed,        \* the calls handed to execute_tool_call: [id, kind, queries]
    failed,          \* the step an exception was caught at by the outer except
    last_call,       \* DatabaseTools called directly: the method and its arguments
    last_out,        \* and what the method answered
    repeat_out,      \* and what it answered when the same call was made again
    raw_response,    \* /generate_options: the text of the agent's message
    llm_response,    \* the text after the fence markers are removed
    json_str,        \* the span the regular expression matched
    parsed_response, \* the value json.loads returned
    response,        \* what /generate_options answered
    opt_pc,          \* the position of /generate_options
    manager_conn,    \* db.conn of the DatabaseManager all requests share: 0 is None
    connections,     \* the SQLite connections opened so far: [thread, by, open]
    requests,        \* the /recommendations requests under way, one thread each
    tables,          \* uber_eats.db: the rows of users, orders, food_preferences, user_notes
    cache,           \* app.py's module-level dictionaries `users` and `orders`
    reply,           \* the last request made of the store and what it was answered
    uuids,           \* uuid.uuid4() calls made so far
    leaked           \* a connection left open inside a write transaction

vars == <<db, pc, messages, tool_calls, tool_results, final_response, result, agent_calls,
          final_requests, queries, executed, failed, last_call, last_out, repeat_out,
          raw_response, llm_response, json_str, parsed_response, response, opt_pc,
          manager_conn, connections, requests, tables, cache, reply, uuids, leaked>>

\* the variables of the server that handles requests in threads
server_vars == <<manager_conn, connections, requests>>

\* no /recommendations request has arrived
ServerIdle ==
    /\ manager_conn = 0
    /\ connections = <<>>
    /\ requests = <<>>

\* the variables of the user and order store
store_vars == <<tables, cache, reply, uuids, leaked>>

\* the store is not in use
StoreIdle ==
    /\ tables = <<>>
    /\ cache = <<>>
    /\ reply = <<>>
    /\ uuids = 0
    /\ leaked = FALSE

\* the variables of a /generate_options request
options_vars == <<raw_response, llm_response, json_str, parsed_response, response, opt_pc>>

NotParsed == [t |-> "unset", v |-> <<>>]

NoAnswer == [status |-> 0, category |-> "", options |-> <<>>, error |-> ""]

\* no /generate_options request is under way
OptionsIdle ==
    /\ raw_response = <<>>
    /\ llm_response = <<>>
    /\ json_str = <<>>
    /\ parsed_response = NotParsed
    /\ response = NoAnswer
    /\ opt_pc = "IDLE"

\* the variables of a recommendation request
request_vars == <<pc, messages, tool_calls, tool_results, final_response, result, agent_calls,
                  final_requests, queries, executed, failed>>

NoCall == [name |-> "", arguments |-> [json |-> "object", kw |-> <<>>]]

NoPayload == [kind |-> "", rows |-> <<>>, msg |-> ""]

Turn(role, content) ==
    [role |-> role, content |-> content, tool_call_id |-> 0, name |-> "",
     payload |-> NoPayload, calls |-> <<>>]

AssistantTurn(content, calls) ==
    [role |-> "assistant", content |-> content, tool_call_id |-> 0, name |-> "",
     payload |-> NoPayload, calls |-> calls]

\* (mutant) the tool turn does not carry the id of the call it answers
ToolTurn_NoCallId(r) ==
    [role |-> "tool", content |-> "json.dumps(result)", tool_call_id |-> 0,
     name |-> r.name, payload |-> r.result, calls |-> <<>>]

\* json.dumps(result) of a tool result, as the content of its tool turn
ToolTurn(r) ==
    [role |-> "tool", content |-> "json.dumps(result)", tool_call_id |-> r.tool_call_id,
     name |-> r.name, payload |-> r.result, calls |-> <<>>]

Fields == {"text", "recommendations", "follow_up_question"}

ApologyText == "I'm sorry, I couldn't generate recommendations at this time. Please try again later."

\* a returned value: a dictionary with the keys `keys`
Result(keys, text, recs, follow) ==
    [keys |-> keys, text |-> text, recommendations |-> recs, follow_up_question |-> follow]

NoResult == Result({}, "", <<>>, "")

\* the result of the outer except clause
FallbackResult ==
    Result(Fields, ApologyText, <<>>, "Would you like to try a different type of cuisine?")

\* (mutant) the basic response asks no follow-up question
NoToolsResult_NoQuestion(content) ==
    Result(Fields, content, <<>>, "")

\* the result when the first reply holds no tool call
NoToolsResult(content) ==
    Result(Fields, content, <<>>, "Can you provide more details about what you're looking for?")

\* the result when the final reply is not parseable JSON
UnparsedResult(content) ==
    Result(Fields, content, <<>>, "Would you like more specific recommendations?")

(* What the agent may send. *)

Obj(kw) == [json |-> "object", kw |-> kw]

AgentArguments ==
    [search_restaurants |->
        {Obj(<<Arg("search_term", VStr("pizza"))>>),
         Obj(<<Arg("search_term", VStr("")), Arg("limit", VInt(-1))>>),
         Obj(<<Arg("search_term", VStr("sushi")), Arg("limit", VStr("many"))>>),
         Obj(<<Arg("cuisine_type", VStr("italian"))>>),
         [json |-> "invalid", kw |-> <<>>]},
     search_menu_items |->
        {Obj(<<Arg("search_term", VStr("roll")), Arg("max_price", VStr("cheap"))>>),
         Obj(<<Arg("search_term", VStr("roll")), Arg("price", VInt(10))>>)},
     get_popular_cuisines |-> {Obj(<<>>)},
     lookup_weather |-> {Obj(<<>>), [json |-> "invalid", kw |-> <<>>]}]

AgentCalls ==
    UNION {{[name |-> nm, arguments |-> ar] : ar \in AgentArguments[nm]} : nm \in DOMAIN AgentArguments}

\* the replies' tool call lists: call i of a reply has id i
RECURSIVE SeqsUpTo(_, _)
SeqsUpTo(S, n) ==
    IF n = 0 THEN {<<>>}
    ELSE LET shorter == SeqsUpTo(S, n - 1)
         IN  shorter \cup {Append(q, x) : q \in {r \in shorter : Len(r) = n - 1}, x \in S}

WithIds(cs) == [i \in 1..Len(cs) |-> [id |-> i, name |-> cs[i].name, arguments |-> cs[i].arguments]]

AgentNames == {"Pizza Hut", "Pizza Roma", "Sushi Bar", "Burger Palace"}

NameOrder == <<"Pizza Hut", "Pizza Roma", "Sushi Bar", "Burger Palace">>

\* the `recommendations` lists of the agent's final answer
AgentRecs ==
    {SelectSeq(NameOrder, LAMBDA nm : nm \in S) : S \in {T \in SUBSET AgentNames : Cardinality(T) <= MaxRecs}}

\* the final reply: its message.content is JSON text of an object ("object"),
\* other text ("text") or None ("none"); more_tools says that the reply asks
\* for further tool calls (message.tool_calls is not empty)
FinalResponses ==
    {[kind |-> "object", keys |-> ks, recs |-> rs, more_tools |-> FALSE] :
        ks \in SUBSET Fields, rs \in AgentRecs}
    \cup {[kind |-> k, keys |-> {}, recs |-> <<>>, more_tools |-> m] :
             k \in {"text", "none"}, m \in BOOLEAN}
    \cup {[kind |-> "object", keys |-> Fields, recs |-> <<>>, more_tools |-> TRUE]}

NoResponse == [kind |-> "", keys |-> {}, recs |-> <<>>, more_tools |-> FALSE]

SystemPrompt == "system_prompt"
UserPrompt == "user_prompt"
JsonPrompt == "json_prompt"

Init ==
    /\ db \in {[status |-> st, t |-> Catalog(3)] : st \in {"ok", "locked", "unopenable"}}
    /\ pc = "AWAITING_AGENT"
    /\ messages = <<Turn("system", SystemPrompt), Turn("user", UserPrompt)>>
    /\ tool_calls = <<>>
    /\ tool_results = <<>>
    /\ final_response = NoResponse
    /\ result = NoResult
    /\ agent_calls = 0
    /\ final_requests = 0
    /\ queries = 0
    /\ executed = <<>>
    /\ failed = ""
    /\ last_call = NoCall
    /\ last_out = Rows(<<>>, 0)
    /\ repeat_out = NotRun
    /\ OptionsIdle
    /\ ServerIdle
    /\ StoreIdle

\* the first create() call raises: the outer except answers
FirstCallFails ==
    /\ pc = "AWAITING_AGENT"
    /\ agent_calls' = agent_calls + 1
    /\ result' = FallbackResult
    /\ failed' = "first_call"
    /\ pc' = "DONE"
    /\ UNCHANGED <<store_vars, server_vars, options_vars, last_call, last_out, repeat_out, db, messages, tool_calls, tool_results, final_requests, queries, executed, final_response>>

\* the first reply asks for tools
FirstReplyWithTools ==
    /\ pc = "AWAITING_AGENT"
    /\ \E cs \in SeqsUpTo(AgentCalls, MaxToolCalls) :
          /\ cs # <<>>
          /\ tool_calls' = WithIds(cs)
    /\ agent_calls' = agent_calls + 1
    /\ pc' = "EXECUTING_TOOLS"
    /\ UNCHANGED <<store_vars, server_vars, options_vars, last_call, last_out, repeat_out, db, messages, tool_results, result, final_requests, queries, executed, failed, final_response>>

\* (mutant) a first reply without tool calls goes on to the final request
FirstReplyNoTools_Finalizes ==
    /\ pc = "AWAITING_AGENT"
    /\ messages' = messages \o <<AssistantTurn("", <<>>), Turn("user", JsonPrompt)>>
    /\ agent_calls' = agent_calls + 1
    /\ pc' = "FINALIZING"
    /\ UNCHANGED <<store_vars, server_vars, options_vars, last_call, last_out, repeat_out, db, tool_calls, tool_results, final_requests, queries,
                   executed, failed, final_response, result>>

\* the first reply asks for no tool: the basic response
FirstReplyNoTools ==
    /\ pc = "AWAITING_AGENT"
    /\ \E content \in {"Here are some ideas.", ""} :
          result' = NoToolsResult(content)
    /\ agent_calls' = agent_calls + 1
    /\ pc' = "DONE"
    /\ UNCHANGED <<store_vars, server_vars, options_vars, last_call, last_out, repeat_out, db, messages, tool_calls, tool_results, final_requests, queries, executed, failed, final_response>>

\* one iteration of the loop over assistant_message.tool_calls
ExecuteTool ==
    /\ pc = "EXECUTING_TOOLS"
    /\ Len(tool_results) < Len(tool_calls)
    /\ LET tc == tool_calls[Len(tool_results) + 1]
           out == execute_tool_call(db, tc)
       IN  /\ executed' = Append(executed, [id |-> tc.id, kind |-> out.kind, queries |-> out.queries])
           /\ queries' = queries + out.queries
           /\ IF out.kind = "raise"
              THEN /\ result' = FallbackResult
                   /\ failed' = "tool"
                   /\ pc' = "DONE"
                   /\ UNCHANGED tool_results
              ELSE /\ tool_results' = Append(tool_results,
                          [tool_call_id |-> tc.id, name |-> tc.name,
                           result |-> [kind |-> out.kind, rows |-> out.rows, msg |-> out.msg]])
                   /\ UNCHANGED <<result, failed, pc>>
    /\ UNCHANGED <<store_vars, server_vars, options_vars, last_call, last_out, repeat_out, db, messages, tool_calls, agent_calls, final_requests, final_response>>

\* (mutant) the JSON-format prompt is put before the tool results
AppendResults_PromptFirst ==
    /\ pc = "EXECUTING_TOOLS"
    /\ Len(tool_results) = Len(tool_calls)
    /\ messages' = messages \o <<AssistantTurn("", tool_calls)>>
                     \o <<Turn("user", JsonPrompt)>>
                     \o [i \in 1..Len(tool_results) |-> ToolTurn(tool_results[i])]
    /\ pc' = "FINALIZING"
    /\ UNCHANGED <<store_vars, server_vars, options_vars, last_call, last_out, repeat_out, db, tool_calls, tool_results, result, agent_calls, final_requests,
                   queries, executed, failed, final_response>>

\* the assistant message, the tool results and the JSON-format prompt are
\* appended to the transcript
AppendResults ==
    /\ pc = "EXECUTING_TOOLS"
    /\ Len(tool_results) = Len(tool_calls)
    /\ messages' = messages \o <<AssistantTurn("", tool_calls)>>
                     \o [i \in 1..Len(tool_results) |-> ToolTurn(tool_results[i])]
                     \o <<Turn("user", JsonPrompt)>>
    /\ pc' = "FINALIZING"
    /\ UNCHANGED <<store_vars, server_vars, options_vars, last_call, last_out, repeat_out, db, tool_calls, tool_results, result, agent_calls, final_requests,
                   queries, executed, failed, final_response>>

\* (mutant) the second create() call is made outside the try block
FinalCallFails_Unhandled ==
    /\ pc = "FINALIZING"
    /\ agent_calls' = agent_calls + 1
    /\ final_requests' = final_requests + 1
    /\ failed' = "final_call"
    /\ pc' = "DONE"
    /\ UNCHANGED <<store_vars, server_vars, options_vars, last_call, last_out, repeat_out, db, messages, tool_calls, tool_results, queries,
                   executed, final_response, result>>

\* the second create() call raises: the outer except answers
FinalCallFails ==
    /\ pc = "FINALIZING"
    /\ agent_calls' = agent_calls + 1
    /\ final_requests' = final_requests + 1
    /\ result' = FallbackResult
    /\ failed' = "final_call"
    /\ pc' = "DONE"
    /\ UNCHANGED <<store_vars, server_vars, options_vars, last_call, last_out, repeat_out, db, messages, tool_calls, tool_results, queries, executed, final_response>>

\* the value returned for the final reply's content
FinalResult(c) ==
    CASE c.kind = "object" ->
             Result(c.keys,
                    IF "text" \in c.keys THEN "agent text" ELSE "",
                    IF "recommendations" \in c.keys THEN c.recs ELSE <<>>,
                    IF "follow_up_question" \in c.keys THEN "agent question" ELSE "")
      [] c.kind = "text" -> UnparsedResult("agent text")
      [] OTHER -> FallbackResult

\* (mutant) a final reply that asks for more tools starts another round
FinalReply_SecondRound ==
    /\ pc = "FINALIZING"
    /\ \E c \in FinalResponses :
          /\ final_response' = c
          /\ IF c.more_tools
             THEN /\ tool_results' = <<>>
                  /\ pc' = "EXECUTING_TOOLS"
                  /\ UNCHANGED <<result, failed>>
             ELSE /\ result' = FinalResult(c)
                  /\ failed' = IF c.kind = "none" THEN "final_content" ELSE failed
                  /\ pc' = "DONE"
                  /\ UNCHANGED tool_results
    /\ agent_calls' = agent_calls + 1
    /\ final_requests' = final_requests + 1
    /\ UNCHANGED <<store_vars, server_vars, options_vars, last_call, last_out, repeat_out, db, messages, tool_calls, queries, executed>>

\* the final reply arrives and is parsed
FinalReply ==
    /\ pc = "FINALIZING"
    /\ \E c \in FinalResponses :
          /\ final_response' = c
          /\ result' = FinalResult(c)
          /\ failed' = IF c.kind = "none" THEN "final_content" ELSE failed
    /\ agent_calls' = agent_calls + 1
    /\ final_requests' = final_requests + 1
    /\ pc' = "DONE"
    /\ UNCHANGED <<store_vars, server_vars, options_vars, last_call, last_out, repeat_out, db, messages, tool_calls, tool_results, queries, executed>>

Next ==
    \/ FirstCallFails
    \/ FirstReplyWithTools
    \/ FirstReplyNoTools
    \/ ExecuteTool
    \/ AppendResults
    \/ FinalCallFails
    \/ FinalReply

Spec == Init /\ [][Next]_vars

\* a request that has started runs on: every step of the handler is taken,
\* and an agent call returns or fails
FairSpec == Spec /\ WF_vars(Next)


-----------------------------------------------------------------------------
(* DatabaseTools called directly, with any integer limit, on catalogs of   *)
(* up to MaxRows rows.                                                     *)

TableSizes == 0..MaxRows

LimitInputs ==
    {-1, 0, 1, CapSimilarRestaurants, CapSimilarRestaurants + 1, CapSearchRestaurants,
     CapSearchRestaurants + 1, CapSearchMenuItems, CapSearchMenuItems + 1,
     CapRestaurantMenu, CapRestaurantMenu + 1, 0 - MaxRows}

\* arguments that select every row the method can return
WideArguments(name) ==
    CASE name \in {"search_restaurants", "search_menu_items"} -> <<Arg("search_term", VStr(""))>>
      [] name \in {"get_restaurant_menu", "get_similar_restaurants", "get_restaurant_ingredients"} ->
             <<Arg("restaurant_id", VId(1))>>
      [] name \in {"get_user_order_history", "get_user_favorite_cuisines"} -> <<Arg("user_id", VId(1))>>
      [] name = "search_by_ingredients" -> <<Arg("ingredients", VList(<<"tomato", "rice">>))>>
      [] OTHER -> <<>>

InitTools ==
    /\ db \in {[status |-> st, t |-> Catalog(n)] : st \in {"ok", "locked"}, n \in TableSizes}
    /\ pc = "DONE"
    /\ messages = <<>>
    /\ tool_calls = <<>>
    /\ tool_results = <<>>
    /\ final_response = NoResponse
    /\ result = NoResult
    /\ agent_calls = 0
    /\ final_requests = 0
    /\ queries = 0
    /\ executed = <<>>
    /\ failed = ""
    /\ last_call = NoCall
    /\ last_out = Rows(<<>>, 0)
    /\ repeat_out = NotRun
    /\ OptionsIdle
    /\ ServerIdle
    /\ StoreIdle

\* (mutant) the call removes the rows it has read from the store
CallWithLimit_Consuming ==
    /\ last_call = NoCall
    /\ \E name \in DispatchNames \ {"get_restaurant_ingredients"}, lim \in LimitInputs :
          LET kw == WideArguments(name) \o <<Arg("limit", VInt(lim))>>
          IN  /\ last_call' = [name |-> name, arguments |-> Obj(kw)]
              /\ last_out' = Handler(db, name, Bound(name, kw))
    /\ db' = [db EXCEPT !.t = Catalog(0)]
    /\ UNCHANGED <<request_vars, options_vars, server_vars, store_vars, repeat_out>>

\* a method that takes a limit is called with an integer limit
CallWithLimit ==
    /\ last_call = NoCall
    /\ \E name \in DispatchNames \ {"get_restaurant_ingredients"}, lim \in LimitInputs :
          LET kw == WideArguments(name) \o <<Arg("limit", VInt(lim))>>
          IN  /\ last_call' = [name |-> name, arguments |-> Obj(kw)]
              /\ last_out' = Handler(db, name, Bound(name, kw))
    /\ UNCHANGED <<db, request_vars, options_vars, server_vars, store_vars, repeat_out>>

\* a method is called without a limit
CallWithoutLimit ==
    /\ last_call = NoCall
    /\ \E name \in DispatchNames :
          LET kw == WideArguments(name)
          IN  /\ last_call' = [name |-> name, arguments |-> Obj(kw)]
              /\ last_out' = Handler(db, name, Bound(name, kw))
    /\ UNCHANGED <<db, request_vars, options_vars, server_vars, store_vars, repeat_out>>

\* the call that was made is made again, with the same arguments
RepeatCall ==
    /\ last_call # NoCall
    /\ repeat_out = NotRun
    /\ repeat_out' = Handler(db, last_call.name, Bound(last_call.name, last_call.arguments.kw))
    /\ UNCHANGED <<db, request_vars, options_vars, server_vars, store_vars, last_call, last_out>>

NextTools == CallWithLimit \/ CallWithoutLimit \/ RepeatCall

SpecTools == InitTools /\ [][NextTools]_vars


-----------------------------------------------------------------------------
(* The /generate_options normalizer (app.py).  A text is a sequence of     *)
(* tokens: the JSON punctuation, the quote, the fence marker, the blank,   *)
(* the newline, and words.  A JSON value is [t, v]: t its type and v its    *)
(* tokens (a string, a number, a literal), its elements (an array) or its   *)
(* [k, v] members in the order of the dictionary (an object).              *)

Q == "\""
\* the markdown code fence, three backquotes
Fence == "<fence>"
NL == "\n"

JStr(toks) == [t |-> "str", v |-> toks]
JNum(tok) == [t |-> "num", v |-> <<tok>>]
JLit(tok) == [t |-> "lit", v |-> <<tok>>]
JArr(elems) == [t |-> "arr", v |-> elems]
JObj(members) == [t |-> "obj", v |-> members]
Member(k, v) == [k |-> <<k>>, v |-> v]

Numbers == {"1", "2", "5"}
Literals == {"null", "true", "false"}
IsSpace(c) == c \in {" ", NL}

\* str.replace(fence + 'json', ''): the tokens of every occurrence are
\* blanked and then dropped
RemoveFenceJson(s) ==
    LET gone == {i \in 1..Len(s) :
                    \/ s[i] = Fence /\ i < Len(s) /\ s[i + 1] = "json"
                    \/ s[i] = "json" /\ i > 1 /\ s[i - 1] = Fence}
        blanked == [i \in 1..Len(s) |-> IF i \in gone THEN "" ELSE s[i]]
    IN  SelectSeq(blanked, LAMBDA c : c # "")

\* str.replace(fence, '')
RemoveFence(s) == SelectSeq(s, LAMBDA c : c # Fence)

\* str.strip()
Strip(s) ==
    LET solid == {i \in 1..Len(s) : ~IsSpace(s[i])}
    IN  IF solid = {} THEN <<>>
        ELSE SubSeq(s, CHOOSE i \in solid : \A j \in solid : i <= j,
                       CHOOSE i \in solid : \A j \in solid : j <= i)

\* llm_response.replace(fence + 'json', '').replace(fence, '').strip()
CleanFences(s) == Strip(RemoveFence(RemoveFenceJson(s)))

(* json.loads: a recursive-descent parse of the token sequence. *)

ParseFail == [ok |-> FALSE, val |-> JLit("null"), next |-> 0]
ParseOk(val, next) == [ok |-> TRUE, val |-> val, next |-> next]

RECURSIVE SkipWs(_, _)
SkipWs(s, i) == IF i <= Len(s) /\ IsSpace(s[i]) THEN SkipWs(s, i + 1) ELSE i

\* the closing quote of a string whose content starts at i; 0 when the text
\* or the line ends first
RECURSIVE CloseQuote(_, _)
CloseQuote(s, i) ==
    IF i > Len(s) \/ s[i] = NL THEN 0
    ELSE IF s[i] = Q THEN i
    ELSE CloseQuote(s, i + 1)

\* the escape sequences of a JSON string, one token each
Escaped(c) ==
    IF c = Q THEN "\\\"" ELSE IF c = NL THEN "\\n" ELSE IF c = "\\" THEN "\\\\" ELSE c

Unescaped(c) ==
    IF c = "\\\"" THEN Q ELSE IF c = "\\n" THEN NL ELSE IF c = "\\\\" THEN "\\" ELSE c

ParseString(s, i) ==
    LET j == CloseQuote(s, i + 1)
    IN  IF j = 0 THEN ParseFail
        ELSE ParseOk(JStr([n \in 1..(j - i - 1) |-> Unescaped(s[i + n])]), j + 1)

\* dict[k] = v: a repeated key keeps its place and takes the later value
DictSet(members, k, v) ==
    IF \E i \in 1..Len(members) : members[i].k = k
    THEN [i \in 1..Len(members) |->
             IF members[i].k = k THEN [k |-> k, v |-> v] ELSE members[i]]
    ELSE Append(members, [k |-> k, v |-> v])

RECURSIVE ParseValue(_, _), ParseMembers(_, _, _), ParseElements(_, _, _)

ParseValue(s, i0) ==
    LET i == SkipWs(s, i0)
    IN  IF i > Len(s) THEN ParseFail
        ELSE IF s[i] = Q THEN ParseString(s, i)
        ELSE IF s[i] = "{"
             THEN LET j == SkipWs(s, i + 1)
                  IN  IF j <= Len(s) /\ s[j] = "}" THEN ParseOk(JObj(<<>>), j + 1)
                      ELSE ParseMembers(s, j, <<>>)
        ELSE IF s[i] = "["
             THEN LET j == SkipWs(s, i + 1)
                  IN  IF j <= Len(s) /\ s[j] = "]" THEN ParseOk(JArr(<<>>), j + 1)
                      ELSE ParseElements(s, j, <<>>)
        ELSE IF s[i] \in Numbers THEN ParseOk(JNum(s[i]), i + 1)
        ELSE IF s[i] \in Literals THEN ParseOk(JLit(s[i]), i + 1)
        ELSE ParseFail

ParseMembers(s, i0, acc) ==
    LET i == SkipWs(s, i0)
    IN  IF i > Len(s) \/ s[i] # Q THEN ParseFail
        ELSE LET k == ParseString(s, i)
             IN  IF ~k.ok THEN ParseFail
                 ELSE LET c == SkipWs(s, k.next)
                      IN  IF c > Len(s) \/ s[c] # ":" THEN ParseFail
                          ELSE LET v == ParseValue(s, c + 1)
                               IN  IF ~v.ok THEN ParseFail
                                   ELSE LET e == SkipWs(s, v.next)
                                            acc2 == DictSet(acc, k.val.v, v.val)
                                        IN  IF e > Len(s) THEN ParseFail
                                            ELSE IF s[e] = "}" THEN ParseOk(JObj(acc2), e + 1)
                                            ELSE IF s[e] = "," THEN ParseMembers(s, e + 1, acc2)
                                            ELSE ParseFail

ParseElements(s, i0, acc) ==
    LET v == ParseValue(s, i0)
    IN  IF ~v.ok THEN ParseFail
        ELSE LET e == SkipWs(s, v.next)
                 acc2 == Append(acc, v.val)
             IN  IF e > Len(s) THEN ParseFail
                 ELSE IF s[e] = "]" THEN ParseOk(JArr(acc2), e + 1)
                 ELSE IF s[e] = "," THEN ParseElements(s, e + 1, acc2)
                 ELSE ParseFail

\* json.loads(s): ok is FALSE where it raises JSONDecodeError
json_loads(s) ==
    LET v == ParseValue(s, 1)
    IN  IF v.ok /\ SkipWs(s, v.next) > Len(s) THEN v ELSE ParseFail

\* re.search(r'\{[\s\S]*\}', s): from the first "{" to the last "}" of the
\* text; the empty sequence when there is no match
JsonMatch(s) ==
    LET opens == {i \in 1..Len(s) : s[i] = "{"}
        closes == {i \in 1..Len(s) : s[i] = "}"}
    IN  IF opens = {} \/ closes = {} THEN <<>>
        ELSE LET first == CHOOSE i \in opens : \A j \in opens : i <= j
                 last == CHOOSE i \in closes : \A j \in closes : j <= i
             IN  IF first < last THEN SubSeq(s, first, last) ELSE <<>>

(* The restructuring of the parsed value into the three options. *)

OptionCount == 3

Has(obj, k) == \E i \in 1..Len(obj.v) : obj.v[i].k = <<k>>

\* dict.get(k, default)
DictGet(obj, k, default) ==
    IF Has(obj, k)
    THEN obj.v[CHOOSE i \in 1..Len(obj.v) : obj.v[i].k = <<k>>].v
    ELSE default

EmptyStr == JStr(<<>>)

Option(name, img, cuisine) ==
    [item_name |-> name, item_img_url |-> img, item_cuisine |-> cuisine]

\* s[:3]
FirstThree(s) == SubSeq(s, 1, Min(OptionCount, Len(s)))

\* item.get succeeds on every item the loop reaches
AllObjects(s) == \A i \in 1..Len(s) : s[i].t = "obj"

FromListItem(item) ==
    Option(DictGet(item, "name", EmptyStr),
           DictGet(item, "image_url", DictGet(item, "image", EmptyStr)),
           DictGet(item, "cuisine", EmptyStr))

FromOptionsItem(item) ==
    Option(DictGet(item, "item_name", DictGet(item, "name", EmptyStr)),
           DictGet(item, "item_img_url",
                   DictGet(item, "image", DictGet(item, "image_url", EmptyStr))),
           DictGet(item, "item_cuisine", DictGet(item, "cuisine", EmptyStr)))

FromFoodItem(item) ==
    Option(DictGet(item, "name", DictGet(item, "item_name", EmptyStr)),
           DictGet(item, "image",
                   DictGet(item, "image_url", DictGet(item, "item_img_url", EmptyStr))),
           DictGet(item, "cuisine", DictGet(item, "item_cuisine", EmptyStr)))

FromKeyedValue(m) ==
    Option(DictGet(m.v, "name", DictGet(m.v, "item_name", JStr(m.k))),
           DictGet(m.v, "image", DictGet(m.v, "image_url", DictGet(m.v, "url", EmptyStr))),
           DictGet(m.v, "cuisine", DictGet(m.v, "type", EmptyStr)))

Raised == [raised |-> TRUE, options |-> <<>>]
Extracted(options) == [raised |-> FALSE, options |-> options]

\* the loop over the first three items of a list
FromItems(items, rule) ==
    IF AllObjects(FirstThree(items))
    THEN Extracted([i \in 1..Len(FirstThree(items)) |->
                       CASE rule = "list" -> FromListItem(items[i])
                         [] rule = "options" -> FromOptionsItem(items[i])
                         [] rule = "food" -> FromFoodItem(items[i])])
    ELSE Raised

\* (mutant) an object with dict-valued fields goes to the keyed-map rule
\* before its options are looked at
ExtractOptions_KeyedFirst(p) ==
    IF p.t = "arr" THEN FromItems(p.v, "list")
    ELSE IF p.t # "obj" THEN Raised
    ELSE LET dicts == SelectSeq(p.v, LAMBDA m : m.v.t = "obj")
         IN  IF dicts # <<>>
             THEN Extracted([i \in 1..Len(FirstThree(dicts)) |-> FromKeyedValue(dicts[i])])
             ELSE IF Has(p, "options") /\ DictGet(p, "options", EmptyStr).t = "arr"
                  THEN FromItems(DictGet(p, "options", EmptyStr).v, "options")
             ELSE IF Has(p, "food") /\ DictGet(p, "food", EmptyStr).t = "arr"
                  THEN FromItems(DictGet(p, "food", EmptyStr).v, "food")
             ELSE Extracted(<<>>)

\* the if / elif chain: raised is TRUE where the chain raises an exception
\* that is not a JSONDecodeError
ExtractOptions(p) ==
    IF p.t = "arr" THEN FromItems(p.v, "list")
    ELSE IF p.t # "obj" THEN Raised
    ELSE IF Has(p, "options")
         THEN LET o == DictGet(p, "options", EmptyStr)
              IN  IF o.t = "arr" THEN FromItems(o.v, "options")
                  ELSE IF o = EmptyStr THEN Extracted(<<>>)
                  ELSE Raised
    ELSE IF Has(p, "food") /\ DictGet(p, "food", EmptyStr).t = "arr"
         THEN FromItems(DictGet(p, "food", EmptyStr).v, "food")
    ELSE LET dicts == SelectSeq(p.v, LAMBDA m : m.v.t = "obj")
         IN  Extracted([i \in 1..Len(FirstThree(dicts)) |-> FromKeyedValue(dicts[i])])

DefaultOption(i) ==
    Option(JStr(<<"Default Option " \o ToString(i)>>),
           JStr(<<"https://example.com/default-food-image.jpg">>),
           JStr(<<"Mixed">>))

\* (mutant) the default options are put in front of the entries
Pad_DefaultsFirst(options) ==
    IF Len(options) < OptionCount
    THEN [i \in 1..(OptionCount - Len(options)) |-> DefaultOption(i)] \o options
    ELSE options

\* while len(result["options"]) < 3: append the next default option
RECURSIVE Pad(_)
Pad(options) ==
    IF Len(options) < OptionCount THEN Pad(Append(options, DefaultOption(Len(options) + 1)))
    ELSE options

\* jsonify(result)
Jsonify(options) == [status |-> 200, category |-> "food", options |-> options, error |-> ""]

\* (mutant) the fallback is made of the default options of the padding loop
EmptyFallback_Defaults == Jsonify(Pad(<<>>))

\* the answer of the except json.JSONDecodeError branch
EmptyFallback == Jsonify([i \in 1..OptionCount |-> Option(EmptyStr, EmptyStr, EmptyStr)])

\* the answer of the except Exception branch
ServerError ==
    [status |-> 500, category |-> "", options |-> <<>>, error |-> "Failed to generate options"]

(* The texts the agent may answer with. *)

MaxItems == 4

RECURSIVE Serialize(_), SerializeAll(_, _)

\* the JSON text of a value, as json.dumps writes it
Serialize(val) ==
    IF val.t = "str" THEN <<Q>> \o [n \in 1..Len(val.v) |-> Escaped(val.v[n])] \o <<Q>>
    ELSE IF val.t \in {"num", "lit"} THEN val.v
    ELSE IF val.t = "arr" THEN <<"[">> \o SerializeAll(val.v, FALSE) \o <<"]">>
    ELSE <<"{">> \o SerializeAll(val.v, TRUE) \o <<"}">>

SerializeAll(s, members) ==
    IF s = <<>> THEN <<>>
    ELSE LET head == IF members
                     THEN <<Q>> \o s[1].k \o <<Q, ":", " ">> \o Serialize(s[1].v)
                     ELSE Serialize(s[1])
         IN  IF Len(s) = 1 THEN head
             ELSE head \o <<",", " ">> \o SerializeAll(Tail(s), members)

ItemA ==
    JObj(<<Member("name", JStr(<<"Pad", " ", "Thai">>)), Member("image_url", JStr(<<"thai.jpg">>)),
           Member("cuisine", JStr(<<"Thai">>))>>)

ItemB ==
    JObj(<<Member("item_name", JStr(<<"Ramen">>)), Member("image", JStr(<<"ramen.jpg">>)),
           Member("item_cuisine", JStr(<<"Japanese">>))>>)

ItemC == JObj(<<Member("url", JStr(<<"taco.jpg">>)), Member("type", JStr(<<"Mexican">>))>>)

\* an item whose name holds fence markers
ItemFenced ==
    JObj(<<Member("name", JStr(<<Fence, "json", " ", "spicy", Fence>>)),
           Member("cuisine", JStr(<<"Thai">>))>>)

Items(k) == [i \in 1..k |-> <<ItemA, ItemB, ItemC>>[((i - 1) % 3) + 1]]

\* an object whose dict-valued fields are items, after a field that is not
KeyedMap(k) ==
    JObj(<<Member("note", JStr(<<"enjoy">>))>>
         \o [i \in 1..k |-> Member("dish" \o ToString(i), Items(k)[i])])

\* payloads whose entries are objects
ItemPayloads ==
    UNION {{JArr(Items(k)),
            JObj(<<Member("options", JArr(Items(k)))>>),
            JObj(<<Member("food", JArr(Items(k)))>>),
            KeyedMap(k)} : k \in 0..MaxItems}

\* scalars, lists and maps whose members are not objects, mixed payloads
OtherPayloads ==
    {JNum("5"), JStr(<<"options">>), JLit("null"),
     JArr(<<JNum("1"), JNum("2")>>),
     JArr(<<ItemA, JStr(<<"Ramen">>)>>),
     JObj(<<Member("options", JLit("null"))>>),
     JObj(<<Member("options", EmptyStr)>>),
     JObj(<<Member("options", JArr(<<ItemA, JNum("1")>>))>>),
     JObj(<<Member("options", JArr(Items(3) \o <<JNum("1")>>))>>),
     JObj(<<Member("options", KeyedMap(1))>>),
     JObj(<<Member("options", JArr(<<ItemA>>)), Member("dish1", ItemB)>>),
     JObj(<<Member("options", JArr(<<ItemFenced>>))>>),
     JObj(<<Member("food", JArr(<<ItemA>>)), Member("dish1", ItemB)>>),
     JObj(<<Member("food", JArr(<<JStr(<<"Ramen">>)>>))>>),
     JObj(<<Member("food", JStr(<<"Ramen">>)), Member("dish1", ItemB)>>)}

Payloads == ItemPayloads \cup OtherPayloads

\* the ways the agent writes a payload: bare, in a fence, in prose
Wrappings(body) ==
    {body,
     <<Fence, "json", NL>> \o body \o <<NL, Fence>>,
     <<Fence, NL>> \o body \o <<NL, Fence, NL>>,
     <<"Sure", "!", " ", Fence, "json", NL>> \o body \o <<NL, Fence>>,
     <<"Here", " ", "you", " ", "go", ":", NL>> \o body \o <<NL, "Enjoy", "!">>}

\* texts that hold no JSON value
ProseTexts ==
    {<<>>,
     <<"Sorry", ",", " ", "no", " ", "ideas">>,
     <<"{", "oops">>,
     <<"}", " ", "oops", " ", "{">>,
     <<"{", "oops", "}">>,
     <<"{", Q, "options", Q, ":", " ", "[", "{", Q, "name", Q, ":", " ", Q, "Pad">>,
     Serialize(ItemA) \o <<" ", "or", " ">> \o Serialize(ItemB)}

AgentTexts == UNION {Wrappings(Serialize(p)) : p \in Payloads} \cup ProseTexts

(* The steps of /generate_options from the agent's message on. *)

InitOptions ==
    /\ db = [status |-> "ok", t |-> Catalog(0)]
    /\ pc = "DONE"
    /\ messages = <<>>
    /\ tool_calls = <<>>
    /\ tool_results = <<>>
    /\ final_response = NoResponse
    /\ result = NoResult
    /\ agent_calls = 0
    /\ final_requests = 0
    /\ queries = 0
    /\ executed = <<>>
    /\ failed = ""
    /\ last_call = NoCall
    /\ last_out = Rows(<<>>, 0)
    /\ repeat_out = NotRun
    /\ raw_response \in AgentTexts
    /\ llm_response = <<>>
    /\ json_str = <<>>
    /\ parsed_response = NotParsed
    /\ response = NoAnswer
    /\ opt_pc = "RECEIVED"
    /\ ServerIdle
    /\ StoreIdle

other_vars == <<db, request_vars, last_call, last_out, repeat_out, server_vars, store_vars>>

\* the fence markers are removed and the text is stripped
CleanResponse ==
    /\ opt_pc = "RECEIVED"
    /\ llm_response' = CleanFences(raw_response)
    /\ opt_pc' = "CLEANED"
    /\ UNCHANGED <<raw_response, json_str, parsed_response, response, other_vars>>

\* json.loads takes the whole text
ParseStrict ==
    /\ opt_pc = "CLEANED"
    /\ json_loads(llm_response).ok
    /\ parsed_response' = json_loads(llm_response).val
    /\ opt_pc' = "PARSED"
    /\ UNCHANGED <<raw_response, llm_response, json_str, response, other_vars>>

\* json.loads refuses the text; it takes the span the expression matched
ExtractJson ==
    /\ opt_pc = "CLEANED"
    /\ ~json_loads(llm_response).ok
    /\ JsonMatch(llm_response) # <<>>
    /\ json_loads(JsonMatch(llm_response)).ok
    /\ json_str' = JsonMatch(llm_response)
    /\ parsed_response' = json_loads(JsonMatch(llm_response)).val
    /\ opt_pc' = "PARSED"
    /\ UNCHANGED <<raw_response, llm_response, response, other_vars>>

\* json.loads refuses the span too: except json.JSONDecodeError answers
ExtractUnparseable ==
    /\ opt_pc = "CLEANED"
    /\ ~json_loads(llm_response).ok
    /\ JsonMatch(llm_response) # <<>>
    /\ ~json_loads(JsonMatch(llm_response)).ok
    /\ json_str' = JsonMatch(llm_response)
    /\ response' = EmptyFallback
    /\ opt_pc' = "RESPONDED"
    /\ UNCHANGED <<raw_response, llm_response, parsed_response, other_vars>>

\* the expression matches nothing: the ValueError reaches except Exception
ExtractNothing ==
    /\ opt_pc = "CLEANED"
    /\ ~json_loads(llm_response).ok
    /\ JsonMatch(llm_response) = <<>>
    /\ response' = ServerError
    /\ opt_pc' = "RESPONDED"
    /\ UNCHANGED <<raw_response, llm_response, json_str, parsed_response, other_vars>>

\* the options are taken from the parsed value and padded to three
Restructure ==
    /\ opt_pc = "PARSED"
    /\ ~ExtractOptions(parsed_response).raised
    /\ response' = Jsonify(Pad(ExtractOptions(parsed_response).options))
    /\ opt_pc' = "RESPONDED"
    /\ UNCHANGED <<raw_response, llm_response, json_str, parsed_response, other_vars>>

\* the if / elif chain raises: the exception reaches except Exception
RestructureRaises ==
    /\ opt_pc = "PARSED"
    /\ ExtractOptions(parsed_response).raised
    /\ response' = ServerError
    /\ opt_pc' = "RESPONDED"
    /\ UNCHANGED <<raw_response, llm_response, json_str, parsed_response, other_vars>>

NextOptions ==
    \/ CleanResponse
    \/ ParseStrict
    \/ ExtractJson
    \/ ExtractUnparseable
    \/ ExtractNothing
    \/ Restructure
    \/ RestructureRaises

SpecOptions == InitOptions /\ [][NextOptions]_vars

-----------------------------------------------------------------------------
(* Two /recommendations requests handled at once, one thread each          *)
(* (app.py get_recommendations).  The handler reads the user's orders       *)
(* through the module-level DatabaseManager `db`, whose conn attribute all  *)
(* requests share, and then runs generate_recommendations on objects of    *)
(* its own.  A connection is [thread, by, open]; sqlite3 lets only the      *)
(* thread that opened a connection use or close it.                        *)

Requests == {1, 2}

Arrived(orders) ==
    [pc |-> "ARRIVED", has_orders |-> orders, conn |-> 0, tool_conn |-> 0,
     messages |-> <<>>, tool_results |-> <<>>, outcome |-> ""]

InitServer ==
    /\ db = [status |-> "ok", t |-> Catalog(0)]
    /\ pc = "DONE"
    /\ messages = <<>>
    /\ tool_calls = <<>>
    /\ tool_results = <<>>
    /\ final_response = NoResponse
    /\ result = NoResult
    /\ agent_calls = 0
    /\ final_requests = 0
    /\ queries = 0
    /\ executed = <<>>
    /\ failed = ""
    /\ last_call = NoCall
    /\ last_out = Rows(<<>>, 0)
    /\ repeat_out = NotRun
    /\ OptionsIdle
    /\ manager_conn = 0
    /\ connections = <<>>
    /\ requests \in [Requests -> {Arrived(o) : o \in BOOLEAN}]
    /\ StoreIdle

rest_vars == <<db, request_vars, last_call, last_out, repeat_out, options_vars, store_vars>>

\* sqlite3.connect on the thread of request r
Opened(r, by) == [thread |-> r, by |-> by, open |-> TRUE]

\* db.get_user_orders: self.connect() stores the new connection in db.conn
ManagerConnect(r) ==
    /\ requests[r].pc = "ARRIVED"
    /\ connections' = Append(connections, Opened(r, "manager"))
    /\ manager_conn' = Len(connections) + 1
    /\ requests' = [requests EXCEPT ![r].pc = "CONNECTED", ![r].conn = Len(connections) + 1]
    /\ UNCHANGED rest_vars

\* cursor.execute and fetchall on the cursor connect() returned
ManagerQuery(r) ==
    /\ requests[r].pc = "CONNECTED"
    /\ connections[requests[r].conn].open
    /\ requests' = [requests EXCEPT ![r].pc = "FETCHED"]
    /\ UNCHANGED <<manager_conn, connections, rest_vars>>

\* self.close() closes db.conn, whichever connection that is by now: its own,
\* none, or one another thread opened, and then sqlite3 raises
\* ProgrammingError, which nothing in the handler catches
ManagerClose(r) ==
    /\ requests[r].pc = "FETCHED"
    /\ IF manager_conn = 0
       THEN /\ requests' = [requests EXCEPT ![r].pc = "ORDERS"]
            /\ UNCHANGED <<manager_conn, connections>>
       ELSE IF connections[manager_conn].thread = r
       THEN /\ connections' = [connections EXCEPT ![manager_conn].open = FALSE]
            /\ manager_conn' = 0
            /\ requests' = [requests EXCEPT ![r].pc = "ORDERS"]
       ELSE /\ requests' = [requests EXCEPT ![r].pc = "DONE", ![r].outcome = "error"]
            /\ UNCHANGED <<manager_conn, connections>>
    /\ UNCHANGED rest_vars

\* the user has no order: the handler answers at once
NoOrderHistory(r) ==
    /\ requests[r].pc = "ORDERS"
    /\ ~requests[r].has_orders
    /\ requests' = [requests EXCEPT ![r].pc = "DONE", ![r].outcome = "no_history"]
    /\ UNCHANGED <<manager_conn, connections, rest_vars>>

RequestTurn(r, role) == [request |-> r, role |-> role]

\* LLMToolsIntegration() and the first agent call, which asks for a tool
StartRecommendations(r) ==
    /\ requests[r].pc = "ORDERS"
    /\ requests[r].has_orders
    /\ requests' = [requests EXCEPT ![r].pc = "TOOL_CALL",
                                    ![r].messages = <<RequestTurn(r, "system"), RequestTurn(r, "user")>>]
    /\ UNCHANGED <<manager_conn, connections, rest_vars>>

\* DatabaseTools.connect: the connection is a local of the method
ToolConnect(r) ==
    /\ requests[r].pc = "TOOL_CALL"
    /\ connections' = Append(connections, Opened(r, "tools"))
    /\ requests' = [requests EXCEPT ![r].pc = "TOOL_CONNECTED", ![r].tool_conn = Len(connections) + 1]
    /\ UNCHANGED <<manager_conn, rest_vars>>

\* the query, then finally: self.close(conn), and the result is recorded
ToolQueryAndClose(r) ==
    /\ requests[r].pc = "TOOL_CONNECTED"
    /\ connections[requests[r].tool_conn].open
    /\ connections[requests[r].tool_conn].thread = r
    /\ connections' = [connections EXCEPT ![requests[r].tool_conn].open = FALSE]
    /\ requests' = [requests EXCEPT ![r].pc = "TOOL_DONE",
                                    ![r].tool_results = Append(@, RequestTurn(r, "tool"))]
    /\ UNCHANGED <<manager_conn, rest_vars>>

\* the transcript is completed, the final reply arrives, the handler answers
FinishRecommendations(r) ==
    /\ requests[r].pc = "TOOL_DONE"
    /\ requests' = [requests EXCEPT ![r].pc = "DONE", ![r].outcome = "ok",
                                    ![r].messages = @ \o <<RequestTurn(r, "assistant")>>
                                                      \o requests[r].tool_results
                                                      \o <<RequestTurn(r, "user")>>]
    /\ UNCHANGED <<manager_conn, connections, rest_vars>>

NextServer ==
    \E r \in Requests :
        \/ ManagerConnect(r)
        \/ ManagerQuery(r)
        \/ ManagerClose(r)
        \/ NoOrderHistory(r)
        \/ StartRecommendations(r)
        \/ ToolConnect(r)
        \/ ToolQueryAndClose(r)
        \/ FinishRecommendations(r)

SpecServer == InitServer /\ [][NextServer]_vars

-----------------------------------------------------------------------------
(* The user and order store: the handlers of app.py, which work on the      *)
(* DatabaseManager `db` (db_manager.py) and on the module-level             *)
(* dictionaries `users` and `orders`, and DBAdmin.delete_user               *)
(* (db_admin.py), run from the command line on the same uber_eats.db.       *)
(* A handler is one action: the requests of this specification are served   *)
(* one after the other.                                                     *)

\* uuid.uuid4() calls the model follows
MaxUuids == 3
\* rows the model lets food_preferences and user_notes hold, each
MaxNotes == 1

\* str(uuid.uuid4()): the n-th call gives a string no earlier call gave
Uuid(n) == "id" \o ToString(n)

NoTables == [users |-> <<>>, orders |-> <<>>, food_preferences |-> <<>>, user_notes |-> <<>>]

NoCache == [users |-> <<>>, orders |-> <<>>]

NoReply == [op |-> "", args |-> <<>>, status |-> 0, body |-> <<>>]

\* the request bodies the clients send
UserBodies ==
    {[username |-> "ann", email |-> "a@x"], [username |-> "bob", email |-> "a@x"],
     [username |-> "bob", email |-> "b@x"]}

RestaurantIds == {JStr(<<"r1">>), JNum("5")}

ItemLists == {JArr(<<JNum("1"), JNum("2")>>), JArr(<<JStr(<<"6", Q, " ", "sub">>)>>)}

\* the ids a client may name: those handed out so far and one never handed out
KnownIds == {Uuid(n) : n \in 1..uuids} \cup {"id0"}

\* a value bound to a column declared TEXT: SQLite stores a number as its text
AsText(v) == IF v.t = "num" THEN JStr(v.v) ELSE v

(* DatabaseManager: the SELECT statements. None is the empty sequence, a     *)
(* row that was found a sequence of one.                                   *)

UserRows(t, user_id) == SelectSeq(t.users, LAMBDA u : u.user_id = user_id)

EmailRows(t, email) == SelectSeq(t.users, LAMBDA u : u.email = email)

OrderRows(t, user_id) == SelectSeq(t.orders, LAMBDA o : o.user_id = user_id)

\* the order_data dictionary of a row; items is json.loads of the stored text
OrderData(row) ==
    [order_id |-> row.order_id, user_id |-> row.user_id, restaurant_id |-> row.restaurant_id,
     items |-> json_loads(row.items).val, status |-> row.status]

UserData(row, order_ids) ==
    [user_id |-> row.user_id, username |-> row.username, email |-> row.email, orders |-> order_ids]

db_get_user(t, user_id) ==
    IF UserRows(t, user_id) = <<>> THEN <<>>
    ELSE <<UserData(UserRows(t, user_id)[1],
                    [i \in 1..Len(OrderRows(t, user_id)) |-> OrderRows(t, user_id)[i].order_id])>>

db_get_order(t, order_id) ==
    LET hit == SelectSeq(t.orders, LAMBDA o : o.order_id = order_id)
    IN  IF hit = <<>> THEN <<>> ELSE <<OrderData(hit[1])>>

db_get_user_orders(t, user_id) ==
    [i \in 1..Len(OrderRows(t, user_id)) |-> OrderData(OrderRows(t, user_id)[i])]

\* the row create_order inserts
OrderRow(order_id, user_id, restaurant_id, items) ==
    [order_id |-> order_id, user_id |-> user_id, restaurant_id |-> AsText(restaurant_id),
     items |-> Serialize(items), status |-> "pending"]

(* app.py: the dictionaries `users` and `orders`, kept as sequences of      *)
(* their values in insertion order.                                        *)

CachedUser(c, user_id) == SelectSeq(c.users, LAMBDA u : u.user_id = user_id)

CachedOrder(c, order_id) == SelectSeq(c.orders, LAMBDA o : o.order_id = order_id)

\* users[user['user_id']] = user
CacheUser(c, user) ==
    IF CachedUser(c, user.user_id) = <<>> THEN [c EXCEPT !.users = Append(@, user)]
    ELSE [c EXCEPT !.users = [i \in 1..Len(@) |-> IF @[i].user_id = user.user_id THEN user ELSE @[i]]]

Answer(status, body) == [status |-> status, body |-> body]

NotFound(what) == Answer(404, [error |-> what \o " not found"])

\* GET /users/<user_id>
app_get_user(t, c, user_id) ==
    IF db_get_user(t, user_id) # <<>> THEN Answer(200, db_get_user(t, user_id)[1])
    ELSE IF CachedUser(c, user_id) # <<>> THEN Answer(200, CachedUser(c, user_id)[1])
    ELSE NotFound("User")

\* GET /users/<user_id>/orders
app_get_user_orders(t, c, user_id) ==
    IF db_get_user_orders(t, user_id) # <<>> THEN Answer(200, db_get_user_orders(t, user_id))
    ELSE IF CachedUser(c, user_id) = <<>> THEN NotFound("User")
    ELSE LET ids == CachedUser(c, user_id)[1].orders
             kept == SelectSeq(ids, LAMBDA id : CachedOrder(c, id) # <<>>)
         IN  Answer(200, [i \in 1..Len(kept) |-> CachedOrder(c, kept[i])[1]])

\* GET /orders/<order_id>
app_get_order(t, c, order_id) ==
    IF db_get_order(t, order_id) # <<>> THEN Answer(200, db_get_order(t, order_id)[1])
    ELSE IF CachedOrder(c, order_id) # <<>> THEN Answer(200, CachedOrder(c, order_id)[1])
    ELSE NotFound("Order")

Replied(op, args, answer) ==
    [op |-> op, args |-> args, status |-> answer.status, body |-> answer.body]

\* an exception no handler catches: Flask answers 500
Unhandled(op, args, what) ==
    [op |-> op, args |-> args, status |-> 500, body |-> [error |-> what]]

RequestsIdle ==
    /\ db = [status |-> "ok", t |-> Catalog(0)]
    /\ pc = "DONE"
    /\ messages = <<>>
    /\ tool_calls = <<>>
    /\ tool_results = <<>>
    /\ final_response = NoResponse
    /\ result = NoResult
    /\ agent_calls = 0
    /\ final_requests = 0
    /\ queries = 0
    /\ executed = <<>>
    /\ failed = ""
    /\ last_call = NoCall
    /\ last_out = Rows(<<>>, 0)
    /\ repeat_out = NotRun

\* the server has started on a database that initialize_db has just created
InitStore ==
    /\ tables = NoTables
    /\ cache = NoCache
    /\ reply = NoReply
    /\ uuids = 0
    /\ leaked = FALSE
    /\ RequestsIdle
    /\ OptionsIdle
    /\ ServerIdle

outside_vars == <<db, request_vars, last_call, last_out, repeat_out, options_vars, server_vars>>

\* POST /users.  db.create_user draws the id, then inserts; an email that is
\* taken raises IntegrityError and the user of that email is read back with
\* get_user, whose close() leaves the connection of create_user open inside
\* the transaction of the failed INSERT.  While such a connection is open
\* every INSERT waits for the lock and raises OperationalError.
PostUser ==
    /\ uuids < MaxUuids
    /\ \E data \in UserBodies :
          LET user_id == Uuid(uuids + 1)
              taken == EmailRows(tables, data.email)
              created == UserData([user_id |-> user_id, username |-> data.username,
                                   email |-> data.email], <<>>)
          IN  /\ uuids' = uuids + 1
              /\ IF leaked
                 THEN /\ reply' = Unhandled("POST /users", data, "database is locked")
                      /\ UNCHANGED <<tables, cache, leaked>>
                 ELSE IF taken = <<>>
                 THEN /\ tables' = [tables EXCEPT !.users = Append(@, [user_id |-> user_id,
                                        username |-> data.username, email |-> data.email])]
                      /\ cache' = CacheUser(cache, created)
                      /\ reply' = Replied("POST /users", data, Answer(201, created))
                      /\ UNCHANGED leaked
                 ELSE LET existing == db_get_user(tables, taken[1].user_id)[1]
                      IN  /\ leaked' = TRUE
                          /\ cache' = CacheUser(cache, existing)
                          /\ reply' = Replied("POST /users", data, Answer(201, existing))
                          /\ UNCHANGED tables
    /\ UNCHANGED outside_vars

\* POST /orders
PostOrder ==
    /\ uuids < MaxUuids
    /\ \E user_id \in KnownIds, restaurant_id \in RestaurantIds, items \in ItemLists :
          LET args == [user_id |-> user_id, restaurant_id |-> restaurant_id, items |-> items]
              order_id == Uuid(uuids + 1)
              new_order == [order_id |-> order_id, user_id |-> user_id,
                            restaurant_id |-> restaurant_id, items |-> items, status |-> "pending"]
          IN  IF UserRows(tables, user_id) # <<>>
              THEN /\ uuids' = uuids + 1
                   /\ IF leaked
                      THEN /\ reply' = Unhandled("POST /orders", args, "database is locked")
                           /\ UNCHANGED <<tables, cache, leaked>>
                      ELSE /\ tables' = [tables EXCEPT !.orders =
                                   Append(@, OrderRow(order_id, user_id, restaurant_id, items))]
                           /\ reply' = Replied("POST /orders", args, Answer(201, new_order))
                           /\ UNCHANGED <<cache, leaked>>
              ELSE IF CachedUser(cache, user_id) = <<>>
              THEN /\ reply' = Replied("POST /orders", args, NotFound("User"))
                   /\ UNCHANGED <<tables, cache, uuids, leaked>>
              ELSE /\ uuids' = uuids + 1
                   /\ cache' = [users |-> [i \in 1..Len(cache.users) |->
                                    IF cache.users[i].user_id = user_id
                                    THEN [cache.users[i] EXCEPT !.orders = Append(@, order_id)]
                                    ELSE cache.users[i]],
                                orders |-> Append(cache.orders, new_order)]
                   /\ reply' = Replied("POST /orders", args, Answer(201, new_order))
                   /\ UNCHANGED <<tables, leaked>>
    /\ UNCHANGED outside_vars

\* GET /users/<user_id>
GetUser ==
    /\ \E user_id \in KnownIds :
          reply' = Replied("GET /users/<user_id>", user_id, app_get_user(tables, cache, user_id))
    /\ UNCHANGED <<tables, cache, uuids, leaked, outside_vars>>

\* GET /users/<user_id>/orders
GetUserOrders ==
    /\ \E user_id \in KnownIds :
          reply' = Replied("GET /users/<user_id>/orders", user_id,
                           app_get_user_orders(tables, cache, user_id))
    /\ UNCHANGED <<tables, cache, uuids, leaked, outside_vars>>

\* GET /orders/<order_id>
GetOrder ==
    /\ \E order_id \in KnownIds :
          reply' = Replied("GET /orders/<order_id>", order_id,
                           app_get_order(tables, cache, order_id))
    /\ UNCHANGED <<tables, cache, uuids, leaked, outside_vars>>

\* db.add_food_preference and db.add_user_note: the INSERT names a user id
\* and no statement of initialize_db turns foreign keys on; an exception is
\* answered with False
AddFoodPreference ==
    /\ Len(tables.food_preferences) < MaxNotes
    /\ \E user_id \in KnownIds :
          /\ reply' = [op |-> "add_food_preference", args |-> user_id,
                       status |-> IF leaked THEN 0 ELSE 1, body |-> <<>>]
          /\ tables' = IF leaked THEN tables
                       ELSE [tables EXCEPT !.food_preferences = Append(@, [user_id |-> user_id])]
    /\ UNCHANGED <<cache, uuids, leaked, outside_vars>>

AddUserNote ==
    /\ Len(tables.user_notes) < MaxNotes
    /\ \E user_id \in KnownIds :
          /\ reply' = [op |-> "add_user_note", args |-> user_id,
                       status |-> IF leaked THEN 0 ELSE 1, body |-> <<>>]
          /\ tables' = IF leaked THEN tables
                       ELSE [tables EXCEPT !.user_notes = Append(@, [user_id |-> user_id])]
    /\ UNCHANGED <<cache, uuids, leaked, outside_vars>>

\* the rows of a table that do not name the user
Without(rows, user_id) == SelectSeq(rows, LAMBDA r : r.user_id # user_id)

\* the three DELETE statements of delete_user
DeleteStatements(t, user_id) ==
    [users |-> Without(t.users, user_id), orders |-> Without(t.orders, user_id),
     food_preferences |-> Without(t.food_preferences, user_id),
     user_notes |-> t.user_notes]

\* DBAdmin.delete_user(user_id, email); `confirm` is what the operator types
\* at the prompt, which is shown only when the user was found.  The outcome
\* is "deleted", "rolled back", "cancelled" or "no user".
AdminDeleteUser ==
    /\ \E by_email \in BOOLEAN :
       \E key \in IF by_email THEN {"a@x", "b@x"} ELSE KnownIds :
          LET found == IF by_email THEN EmailRows(tables, key) ELSE UserRows(tables, key)
              done(user_id, confirm, what) ==
                  [op |-> "delete_user",
                   args |-> [user_id |-> user_id, by_email |-> by_email, confirm |-> confirm],
                   status |-> 0, body |-> [outcome |-> what]]
          IN  IF found = <<>>
              THEN /\ reply' = done("", "", "no user")
                   /\ UNCHANGED tables
              ELSE \E confirm \in {"y", "n"} :
                      IF confirm # "y"
                      THEN /\ reply' = done(found[1].user_id, confirm, "cancelled")
                           /\ UNCHANGED tables
                      ELSE IF leaked
                      THEN /\ reply' = done(found[1].user_id, confirm, "rolled back")
                           /\ UNCHANGED tables
                      ELSE /\ reply' = done(found[1].user_id, confirm, "deleted")
                           /\ tables' = DeleteStatements(tables, found[1].user_id)
    /\ UNCHANGED <<cache, uuids, leaked, outside_vars>>

\* the server process is started again: the dictionaries are empty and the
\* connections of the old process are gone
Restart ==
    /\ cache' = NoCache
    /\ leaked' = FALSE
    /\ reply' = [NoReply EXCEPT !.op = "restart"]
    /\ UNCHANGED <<tables, uuids, outside_vars>>

\* the garbage collector frees the connection create_user left open: its
\* transaction is rolled back and the lock released
CollectConnection ==
    /\ leaked
    /\ leaked' = FALSE
    /\ UNCHANGED <<tables, cache, reply, uuids, outside_vars>>

NextStore ==
    \/ PostUser
    \/ PostOrder
    \/ GetUser
    \/ GetUserOrders
    \/ GetOrder
    \/ AddFoodPreference
    \/ AddUserNote
    \/ AdminDeleteUser
    \/ Restart
    \/ CollectConnection

SpecStore == InitStore /\ [][NextStore]_vars

-----------------------------------------------------------------------------
(* DatabaseManager under threads: two operations on the shared instance     *)
(* `db`, each on a thread of the server, interleaved statement by           *)
(* statement.  connect() returns the new connection to the caller, who       *)
(* keeps it in a local, and stores it in db.conn; close() closes db.conn.   *)

\* the operations: a query method that connects, queries and closes (as
\* get_user_orders), and create_user with an email that is taken, which
\* calls get_user before its own close
ManagerOps == {"get_user_orders", "create_user"}

Called(op) == [op |-> op, pc |-> "CALLED", conn |-> 0, inner |-> 0, outcome |-> ""]

InitManager ==
    /\ RequestsIdle
    /\ OptionsIdle
    /\ StoreIdle
    /\ manager_conn = 0
    /\ connections = <<>>
    /\ requests \in [Requests -> {Called(op) : op \in ManagerOps}]

\* conn, cursor = self.connect()
Connect(r) ==
    /\ requests[r].pc = "CALLED"
    /\ connections' = Append(connections, Opened(r, requests[r].op))
    /\ manager_conn' = Len(connections) + 1
    /\ requests' = [requests EXCEPT ![r].pc = "CONNECTED", ![r].conn = Len(connections) + 1]
    /\ UNCHANGED rest_vars

\* cursor.execute on the local cursor; in create_user the INSERT raises
\* IntegrityError, the handler selects the user id and calls get_user
Execute(r) ==
    /\ requests[r].pc = "CONNECTED"
    /\ requests' = [requests EXCEPT ![r].pc =
                        IF requests[r].op = "create_user" THEN "GET_USER" ELSE "EXECUTED"]
    /\ UNCHANGED <<manager_conn, connections, rest_vars>>

\* get_user, called by create_user: conn, cursor = self.connect()
GetUserConnect(r) ==
    /\ requests[r].pc = "GET_USER"
    /\ connections' = Append(connections, Opened(r, "get_user"))
    /\ manager_conn' = Len(connections) + 1
    /\ requests' = [requests EXCEPT ![r].pc = "GET_USER_CONNECTED", ![r].inner = Len(connections) + 1]
    /\ UNCHANGED rest_vars

\* the two SELECT statements of get_user
GetUserExecute(r) ==
    /\ requests[r].pc = "GET_USER_CONNECTED"
    /\ requests' = [requests EXCEPT ![r].pc = "GET_USER_EXECUTED"]
    /\ UNCHANGED <<manager_conn, connections, rest_vars>>

\* self.close() on the thread of r, after which the operation is at `next`:
\* db.conn is None and nothing happens, or it is a connection of this thread
\* and is closed, or it is a connection another thread opened: sqlite3 raises
\* ProgrammingError and db.conn stays
CloseThen(r, next) ==
    IF manager_conn = 0
    THEN /\ requests' = [requests EXCEPT ![r].pc = next]
         /\ UNCHANGED <<manager_conn, connections>>
    ELSE IF connections[manager_conn].thread = r
    THEN /\ connections' = [connections EXCEPT ![manager_conn].open = FALSE]
         /\ manager_conn' = 0
         /\ requests' = [requests EXCEPT ![r].pc = next]
    ELSE /\ requests' = [requests EXCEPT ![r].outcome = "error",
                                         ![r].pc = IF requests[r].op = "create_user" /\ next # "DONE"
                                                   THEN "EXECUTED" ELSE "DONE"]
         /\ UNCHANGED <<manager_conn, connections>>

\* the self.close() of get_user; an exception it raises passes through
\* the finally clause of create_user
GetUserClose(r) ==
    /\ requests[r].pc = "GET_USER_EXECUTED"
    /\ CloseThen(r, "EXECUTED")
    /\ UNCHANGED rest_vars

\* the self.close() the operation ends with
Close(r) ==
    /\ requests[r].pc = "EXECUTED"
    /\ CloseThen(r, "DONE")
    /\ UNCHANGED rest_vars

NextManager ==
    \E r \in Requests :
        \/ Connect(r)
        \/ Execute(r)
        \/ GetUserConnect(r)
        \/ GetUserExecute(r)
        \/ GetUserClose(r)
        \/ Close(r)

SpecManager == InitManager /\ [][NextManager]_vars

-----------------------------------------------------------------------------
(* LLMDatabaseAccess (llm_db_access.py) and                                 *)
(* LLMDatabaseIntegration.execute_db_query (llm_db_integration.py).  The    *)
(* database is a function from the names of its tables to their rows; a     *)
(* query is its text as tokens (words and symbols).  A method answers with  *)
(* [kind, rows, error]: kind "rows" (a list of row dictionaries), "error"   *)
(* (an {"error": ...} dictionary), "schema" (the schema dictionary) or      *)
(* "raise" (an exception leaves the method).                                *)

allowed_tables == {"restaurants", "menu_items", "users", "orders", "food_preferences", "user_notes"}
allowed_operations == {"SELECT"}

RowsValue(rows) == [kind |-> "rows", rows |-> rows, error |-> ""]
ErrorValue(msg) == [kind |-> "error", rows |-> <<>>, error |-> msg]
SchemaInfo == [kind |-> "schema", rows |-> <<>>, error |-> ""]
Raises(msg) == [kind |-> "raise", rows |-> <<>>, error |-> msg]

Refusal == ErrorValue("Query not allowed for security reasons")

\* the database initialize_db creates, with two rows a table and one user
AccessTables ==
    [n \in {"restaurants", "menu_items", "orders", "ingredients", "users"} |->
        IF n = "users" THEN <<[user_id |-> 1, username |-> "ann"]>> ELSE Catalog(2)[n]]

TableRows(t, name) == IF name \in DOMAIN t THEN t[name] ELSE <<>>

\* str.upper() of a token
Upper(tok) ==
    CASE tok = "select" -> "SELECT"
      [] tok = "from" -> "FROM"
      [] tok = "restaurants" -> "RESTAURANTS"
      [] tok = "menu_items" -> "MENU_ITEMS"
      [] tok = "users" -> "USERS"
      [] tok = "orders" -> "ORDERS"
      [] tok = "food_preferences" -> "FOOD_PREFERENCES"
      [] tok = "user_notes" -> "USER_NOTES"
      [] tok = "ingredients" -> "INGREDIENTS"
      [] OTHER -> tok

\* `word in text`: a substring test; no token of the model's queries holds
\* one of the tested words as a proper part, so it is a test on the tokens
Contains(text, word) == \E i \in 1..Len(text) : text[i] = word

is_safe_query(query) ==
    LET query_upper == [i \in 1..Len(query) |-> Upper(query[i])]
    IN  IF ~\E op \in allowed_operations : Contains(query_upper, op) THEN FALSE
        ELSE \E table \in allowed_tables : Contains(query_upper, Upper(table))

\* what SQLite compiles: the text up to the comment marker
Code(query) ==
    LET marks == {i \in 1..Len(query) : query[i] = "--"}
    IN  IF marks = {} THEN query
        ELSE SubSeq(query, 1, (CHOOSE i \in marks : \A j \in marks : i <= j) - 1)

Verb(query) == IF Code(query) = <<>> THEN "" ELSE Upper(Code(query)[1])

\* the tables the statement names
Referenced(query) ==
    {Code(query)[i + 1] : i \in {j \in 1..(Len(Code(query)) - 1) :
                                    Upper(Code(query)[j]) \in {"FROM", "JOIN", "TABLE"}}}

\* cursor.execute(query) and the lines after it, on a connection of its own
\* that is closed without a commit; selected is what a SELECT yields.
\* A statement that returns no rows leaves cursor.description None, and the
\* comprehension over it raises TypeError, which the except clause turns
\* into an error dictionary.  DELETE runs inside the implicit transaction
\* that close() rolls back; DROP TABLE is committed as it runs.
CursorExecute(t, query, selected) ==
    IF ~(Referenced(query) \subseteq DOMAIN t)
    THEN [value |-> ErrorValue("no such table"), tables |-> t]
    ELSE CASE Verb(query) = "SELECT" -> [value |-> RowsValue(selected), tables |-> t]
           [] Verb(query) = "DELETE" ->
                [value |-> ErrorValue("'NoneType' object is not iterable"), tables |-> t]
           [] Verb(query) = "DROP" ->
                [value |-> ErrorValue("'NoneType' object is not iterable"),
                 tables |-> [n \in DOMAIN t \ Referenced(query) |-> t[n]]]
           [] OTHER -> [value |-> ErrorValue("syntax error"), tables |-> t]

execute_safe_query(t, query, selected) ==
    IF ~is_safe_query(query) THEN [value |-> Refusal, tables |-> t]
    ELSE CursorExecute(t, query, selected)

\* the queries of the access methods; a method's SELECT changes no table
RestaurantsSql == <<"SELECT", "restaurant_id", "FROM", "restaurants", "WHERE", "name", "LIKE", "?", "LIMIT", "10">>
MenuItemsSql == <<"SELECT", "item_id", "FROM", "menu_items", "mi", "JOIN", "restaurants", "r", "WHERE", "mi.name", "LIKE", "?", "LIMIT", "20">>
CuisinesSql == <<"SELECT", "cuisine", "FROM", "restaurants", "GROUP", "BY", "cuisine", "LIMIT", "10">>
PriceRangeSql == <<"SELECT", "item_id", "FROM", "menu_items", "mi", "JOIN", "restaurants", "r", "WHERE", "mi.price", ">=", "?", "LIMIT", "20">>
FavoriteCuisinesSql == <<"SELECT", "cuisine", "FROM", "orders", "o", "JOIN", "restaurants", "r", "WHERE", "o.user_id", "=", "?", "LIMIT", "5">>
FavoriteItemsSql == <<"SELECT", "items", "FROM", "orders", "o", "JOIN", "restaurants", "r", "WHERE", "o.user_id", "=", "?", "LIMIT", "10">>

Joined(t, rid) == \E i \in 1..Len(TableRows(t, "restaurants")) : t.restaurants[i].restaurant_id = rid

access_search_restaurants(t, search_term) ==
    execute_safe_query(t, RestaurantsSql,
        SqlLimit(SelectSeq(TableRows(t, "restaurants"), LAMBDA r :
                     Like(r.name, search_term) \/ Like(r.cuisine, search_term)), 10)).value

access_search_menu_items(t, search_term) ==
    execute_safe_query(t, MenuItemsSql,
        SqlLimit(SelectSeq(TableRows(t, "menu_items"), LAMBDA m :
                     /\ Joined(t, m.restaurant_id)
                     /\ (Like(m.name, search_term) \/ Like(m.section, search_term))), 20)).value

access_get_popular_cuisines(t) ==
    LET rs == TableRows(t, "restaurants")
    IN  execute_safe_query(t, CuisinesSql,
            SqlLimit(Project(OrderByDesc(CuisineGroups([i \in 1..Len(rs) |-> rs[i].cuisine]))), 10)).value

access_get_price_range_items(t, min_price, max_price) ==
    execute_safe_query(t, PriceRangeSql,
        SqlLimit(SelectSeq(TableRows(t, "menu_items"), LAMBDA m :
                     /\ Joined(t, m.restaurant_id)
                     /\ m.price >= min_price
                     /\ m.price <= max_price), 20)).value

UserOrders(t, user_id) ==
    SelectSeq(TableRows(t, "orders"), LAMBDA o :
        IdEq(o.user_id, user_id) /\ Joined(t, o.restaurant_id))

access_get_user_favorite_cuisines(t, user_id) ==
    LET hit == UserOrders(t, user_id)
        cs == [i \in 1..Len(hit) |->
                 (CHOOSE r \in {t.restaurants[j] : j \in 1..Len(t.restaurants)} :
                      r.restaurant_id = hit[i].restaurant_id).cuisine]
    IN  execute_safe_query(t, FavoriteCuisinesSql,
            SqlLimit(Project(OrderByDesc(CuisineGroups(cs))), 5)).value

\* the loop over the result reads result.get: over an error dictionary it
\* meets the key, a string, and AttributeError leaves the method
access_get_user_favorite_items(t, user_id) ==
    LET hit == UserOrders(t, user_id)
        pairs == [i \in 1..Len(hit) |-> <<hit[i].created_at, hit[i]>>]
        results == execute_safe_query(t, FavoriteItemsSql,
                       SqlLimit(Project(OrderByDesc(pairs)), 10)).value
    IN  IF results.kind = "error" THEN Raises("'str' object has no attribute 'get'")
        ELSE results

\* the Python value of a parsed JSON value, as the catalog's columns are
\* compared with it; a string is its one word
NumberOf(tok) == CASE tok = "1" -> 1 [] tok = "2" -> 2 [] tok = "5" -> 5 [] OTHER -> 0

Py(v) ==
    CASE v.t = "str" -> VStr(IF v.v = <<>> THEN "" ELSE v.v[1])
      [] v.t = "num" -> VInt(NumberOf(v.v[1]))
      [] v.t = "lit" -> IF v.v = <<"null">> THEN VNone ELSE VBool(v.v = <<"true">>)
      [] OTHER -> VList(<<>>)

\* float(v): ok is FALSE where it raises ValueError or TypeError
Float(v) ==
    CASE v.t = "num" -> [ok |-> TRUE, n |-> NumberOf(v.v[1])]
      [] v.t = "str" /\ Len(v.v) = 1 /\ v.v[1] \in Numbers -> [ok |-> TRUE, n |-> NumberOf(v.v[1])]
      [] v.t = "lit" /\ v.v # <<"null">> -> [ok |-> TRUE, n |-> IF v.v = <<"true">> THEN 1 ELSE 0]
      [] OTHER -> [ok |-> FALSE, n |-> 0]

\* the branches of execute_db_query on the parsed instruction
Dispatch(t, query_data, user_id) ==
    IF query_data.t # "obj" THEN Raises("object has no attribute 'get'")
    ELSE LET query_type == DictGet(query_data, "query_type", EmptyStr)
         IN  IF query_type = JStr(<<"restaurant_search">>) /\ Has(query_data, "search_term")
             THEN access_search_restaurants(t, Py(DictGet(query_data, "search_term", EmptyStr)))
             ELSE IF query_type = JStr(<<"menu_search">>) /\ Has(query_data, "search_term")
             THEN access_search_menu_items(t, Py(DictGet(query_data, "search_term", EmptyStr)))
             ELSE IF query_type = JStr(<<"popular_cuisines">>)
             THEN access_get_popular_cuisines(t)
             ELSE IF /\ query_type = JStr(<<"price_range">>)
                     /\ Has(query_data, "min_price")
                     /\ Has(query_data, "max_price")
             THEN LET min_price == Float(DictGet(query_data, "min_price", EmptyStr))
                      max_price == Float(DictGet(query_data, "max_price", EmptyStr))
                  IN  IF ~min_price.ok \/ ~max_price.ok
                      THEN Raises("could not convert to float")
                      ELSE access_get_price_range_items(t, min_price.n, max_price.n)
             ELSE IF query_type = JStr(<<"user_favorite_cuisines">>) /\ Truthy(user_id)
             THEN access_get_user_favorite_cuisines(t, user_id)
             ELSE IF query_type = JStr(<<"user_favorite_items">>) /\ Truthy(user_id)
             THEN access_get_user_favorite_items(t, user_id)
             ELSE SchemaInfo

\* (mutant) no except Exception clause: the exception leaves the method
CatchAll_Reraise(value) == value

\* except Exception as e: return {"error": str(e)}
CatchAll(value) == IF value.kind = "raise" THEN ErrorValue(value.error) ELSE value

execute_db_query(t, query_instruction, user_id) ==
    LET query_data == json_loads(query_instruction)
    IN  IF ~query_data.ok THEN ErrorValue("Invalid query instruction format")
        ELSE CatchAll(Dispatch(t, query_data.val, user_id))

\* the queries a caller hands to execute_safe_query
Queries ==
    UNION {{<<"SELECT", "*", "FROM", n>>,
            <<"select", "*", "from", n>>,
            <<"DELETE", "FROM", n>>,
            <<"DELETE", "FROM", n, "--", "select">>,
            <<"DROP", "TABLE", n>>,
            <<"DROP", "TABLE", n, "--", "select">>,
            <<"SELECT", "*", "FROM", n, "--", "users">>} : n \in {"users", "orders", "restaurants", "ingredients"}}

\* the instructions the model answers generate_db_query with
InstructionValues ==
    {JObj(<<Member("query_type", JStr(<<"restaurant_search">>)), Member("search_term", JStr(<<"pizza">>))>>),
     JObj(<<Member("query_type", JStr(<<"restaurant_search">>))>>),
     JObj(<<Member("query_type", JStr(<<"menu_search">>)), Member("search_term", JNum("5"))>>),
     JObj(<<Member("query_type", JStr(<<"popular_cuisines">>))>>),
     JObj(<<Member("query_type", JStr(<<"price_range">>)), Member("min_price", JNum("1")), Member("max_price", JStr(<<"5">>))>>),
     JObj(<<Member("query_type", JStr(<<"price_range">>)), Member("min_price", JNum("1")), Member("max_price", JStr(<<"cheap">>))>>),
     JObj(<<Member("query_type", JStr(<<"price_range">>)), Member("min_price", JLit("null")), Member("max_price", JNum("5"))>>),
     JObj(<<Member("query_type", JStr(<<"price_range">>)), Member("max_price", JNum("5"))>>),
     JObj(<<Member("query_type", JStr(<<"user_favorite_cuisines">>))>>),
     JObj(<<Member("query_type", JStr(<<"user_favorite_items">>))>>),
     JObj(<<Member("query_type", JStr(<<"drop_tables">>))>>),
     JObj(<<Member("query_type", JArr(<<>>))>>),
     JObj(<<Member("search_term", JStr(<<"pizza">>))>>),
     JArr(<<JStr(<<"popular_cuisines">>)>>),
     JStr(<<"popular_cuisines">>),
     JLit("null")}

Instructions ==
    {Serialize(v) : v \in InstructionValues}
    \cup {<<>>,
          <<"popular_cuisines">>,
          <<"{", Q, "query_type", Q, ":", " ", Q, "popular_cuisines", Q>>,
          <<"{", "query_type", ":", " ", Q, "popular_cuisines", Q, "}">>,
          <<"Here", " ", "you", " ", "go", ":", " ", "{", "}">>}

UserIds == {VNone, VStr(""), VId(1), VId(2)}

InitAccess ==
    /\ RequestsIdle
    /\ OptionsIdle
    /\ ServerIdle
    /\ tables = AccessTables
    /\ cache = <<>>
    /\ reply = NoReply
    /\ uuids = 0
    /\ leaked = FALSE

ExecuteSafeQuery ==
    \E query \in Queries :
        LET table == Code(query)[Len(Code(query))]
            out == execute_safe_query(tables, query, TableRows(tables, table))
        IN  /\ tables' = out.tables
            /\ reply' = [op |-> "execute_safe_query", args |-> <<query>>, status |-> 0,
                         body |-> out.value]
            /\ UNCHANGED <<cache, uuids, leaked, outside_vars>>

ExecuteDbQuery ==
    \E query_instruction \in Instructions, user_id \in UserIds :
        /\ reply' = [op |-> "execute_db_query", args |-> <<query_instruction, user_id>>,
                     status |-> 0,
                     body |-> execute_db_query(tables, query_instruction, user_id)]
        /\ UNCHANGED <<tables, cache, uuids, leaked, outside_vars>>

NextAccess == ExecuteSafeQuery \/ ExecuteDbQuery

SpecAccess == InitAccess /\ [][NextAccess]_vars

-----------------------------------------------------------------------------
(* Claims *)

\* the restaurants named by the tool-result turns of the transcript
Observed ==
    UNION {{messages[i].payload.rows[j].restaurant : j \in 1..Len(messages[i].payload.rows)} :
              i \in {k \in 1..Len(messages) : messages[k].role = "tool"}} \ {""}

\* C1: every restaurant named in the returned recommendations appeared in a
\* tool-call result of the request's transcript; other entries are dropped.
C1_Grounded ==
    pc = "DONE" =>
        \A i \in 1..Len(result.recommendations) : result.recommendations[i] \in Observed

\* C2: every returned value has a text field, a recommendations list and a
\* follow_up_question field.
C2_WellShaped == pc = "DONE" => Fields \subseteq result.keys

AgentCallFailed == failed \in {"first_call", "final_call"}

\* C3: when the first or the final agent call fails, the fixed fallback result
\* is returned (apology text, no recommendations, a non-empty follow-up
\* question), and no agent call or tool execution follows the failure.
C3_AgentFailureFallback ==
    /\ [](AgentCallFailed =>
            /\ pc = "DONE"
            /\ result.keys = Fields
            /\ result.text = ApologyText
            /\ result.recommendations = <<>>
            /\ result.follow_up_question # "")
    /\ [][AgentCallFailed =>
            /\ agent_calls' = agent_calls
            /\ executed' = executed
            /\ queries' = queries]_vars

C3_Witness == failed = "final_call" /\ pc = "DONE" /\ Len(executed) > 0 /\ agent_calls = 2

\* C4: a failing tool execution is recorded as an error payload in that call's
\* tool result, the remaining tool calls of the round are executed and the
\* final agent request is issued with that error payload in the transcript.
C4_ToolFailureRecoverable ==
    (pc = "DONE" /\ \E i \in 1..Len(executed) : executed[i].kind # "rows") =>
        /\ Len(executed) = Len(tool_calls)
        /\ final_requests = 1
        /\ \A i \in 1..Len(executed) : executed[i].kind # "rows" =>
              \E k \in 1..Len(messages) :
                  /\ messages[k].role = "tool"
                  /\ messages[k].tool_call_id = executed[i].id
                  /\ messages[k].payload.kind = "error"

\* C5: every request ends in DONE after at most one round of tool execution
\* and at most two agent calls; once the round's results are appended to the
\* transcript no tool call is executed, whatever the agent's next reply asks.
C5_OneRoundTwoCalls ==
    /\ [](/\ agent_calls <= 2
          /\ Len(executed) <= Len(tool_calls)
          /\ \A i \in 1..Len(executed) : executed[i].id = tool_calls[i].id)
    /\ [][Len(messages) > 2 =>
            /\ executed' = executed
            /\ queries' = queries
            /\ pc' \in {"FINALIZING", "DONE"}]_vars
    /\ <>(pc = "DONE")

C5_Witness ==
    /\ pc = "DONE"
    /\ final_response.more_tools
    /\ agent_calls = 2
    /\ Len(executed) = Len(tool_calls)
    /\ Len(executed) >= 2

OfDeclaredType(type, v) ==
    CASE type = "string" -> v.t = "str"
      [] type = "integer" -> v.t = "int"
      [] type = "number" -> v.t = "int"
      [] type = "boolean" -> v.t = "bool"
      [] type = "array" -> v.t = "list"
      [] OTHER -> FALSE

\* a call of an advertised tool that omits a required parameter, names an
\* undeclared one or gives a value outside the declared type
InvalidCall(tc) ==
    /\ tc.name \in ToolNames
    /\ tc.arguments.json = "object"
    /\ \/ ~(ToolRequired(tc.name) \subseteq Keys(tc.arguments.kw))
       \/ ~(Keys(tc.arguments.kw) \subseteq Keys(ToolProperties(tc.name)))
       \/ \E i \in 1..Len(tc.arguments.kw) :
             /\ tc.arguments.kw[i].k \in Keys(ToolProperties(tc.name))
             /\ ~OfDeclaredType(Get(ToolProperties(tc.name), tc.arguments.kw[i].k),
                                tc.arguments.kw[i].v)

\* C10: an invalid tool call is rejected before any data-store query runs and
\* the rejection is reported to the agent as the error result of that call.
C10_InvalidCallRejected ==
    \A i \in 1..Len(executed) :
        InvalidCall(tool_calls[i]) =>
            /\ executed[i].queries = 0
            /\ executed[i].kind = "error"

\* the hard cap each query method states for its limit
Cap(name) ==
    CASE name = "search_restaurants" -> CapSearchRestaurants
      [] name = "get_restaurant_menu" -> CapRestaurantMenu
      [] name = "search_menu_items" -> CapSearchMenuItems
      [] name = "get_popular_cuisines" -> CapPopularCuisines
      [] name = "get_user_order_history" -> CapUserOrderHistory
      [] name = "get_user_favorite_cuisines" -> CapUserFavoriteCuisines
      [] name = "get_similar_restaurants" -> CapSimilarRestaurants
      [] name = "search_by_ingredients" -> CapSearchByIngredients
      [] name = "get_popular_ingredients" -> CapPopularIngredients

SuppliesLimit(call) == "limit" \in Keys(call.arguments.kw)

\* C9: every query method that takes a limit returns at most its hard cap of
\* rows (20, 50, 30, 20, 20, 10, 10, 20, 30), whatever integer limit the caller
\* supplies: larger than the cap, zero or negative.
C9_RowsWithinCap ==
    (last_call # NoCall /\ SuppliesLimit(last_call))
        => Len(last_out.rows) <= Cap(last_call.name)

CanonicalFields == {"item_name", "item_img_url", "item_cuisine"}

\* the answer is a result of the contract's shape
ValidShaped(r) ==
    /\ r.status = 200
    /\ r.category = "food"
    /\ Len(r.options) = OptionCount
    /\ \A i \in 1..Len(r.options) : DOMAIN r.options[i] = CanonicalFields

\* a list of items, an object with an options key, an arbitrary keyed map
RecognisedShape(p) ==
    \/ p.t = "arr" /\ AllObjects(p.v)
    \/ p.t = "obj"

\* C7: for every parsed payload of a recognised shape (a list of items, an
\* object with an options key, an arbitrary keyed map) the /generate_options
\* result has exactly 3 option entries and every entry has exactly the fields
\* item_name, item_img_url and item_cuisine.
C7_ThreeCanonicalOptions ==
    (opt_pc = "RESPONDED" /\ parsed_response # NotParsed /\ RecognisedShape(parsed_response))
        => /\ response.status = 200
           /\ Len(response.options) = OptionCount
           /\ \A i \in 1..Len(response.options) : DOMAIN response.options[i] = CanonicalFields

\* C8: whatever text the agent answers with (valid JSON, JSON in prose or
\* fences, no JSON object at all, a JSON scalar, a list or map whose members
\* are not objects), /generate_options answers with a valid-shaped result:
\* the category and 3 option entries, never an error.
C8_NeverSurfacesError ==
    opt_pc = "RESPONDED" => ValidShaped(response)

\* C11: a tool call whose name is not a registered tool executes no
\* data-store query and produces an error result naming the unknown function,
\* and the request goes on to the final agent request.
C11_UnknownToolReported ==
    \A i \in 1..Len(executed) :
        tool_calls[i].name \notin DispatchNames =>
            /\ executed[i].queries = 0
            /\ executed[i].kind = "error"
            /\ Len(tool_results) >= i
            /\ tool_results[i].result.msg = "Unknown function: " \o tool_calls[i].name
            /\ pc = "DONE" => final_requests = 1

\* the tool-result turns of the transcript, in order
ToolTurns == SelectSeq(messages, LAMBDA m : m.role = "tool")

\* the transcript is complete and the final request is or has been issued
FinalRequestReady == pc = "FINALIZING" \/ final_requests >= 1

\* C12: when the final agent request is issued the transcript holds exactly
\* one tool-result turn for each tool call request of the agent's reply, with
\* the same call id and tool name and in the order of the requests, and none
\* for another call id; each request was executed exactly once.
C12_OneResultTurnPerCall ==
    FinalRequestReady =>
        /\ Len(ToolTurns) = Len(tool_calls)
        /\ \A i \in 1..Len(ToolTurns) :
              /\ ToolTurns[i].tool_call_id = tool_calls[i].id
              /\ ToolTurns[i].name = tool_calls[i].name
        /\ Len(executed) = Len(tool_calls)
        /\ \A i \in 1..Len(executed) : executed[i].id = tool_calls[i].id

C12_Witness ==
    /\ final_requests = 1
    /\ Len(tool_calls) = 2
    /\ tool_calls[1].name # tool_calls[2].name
    /\ Len(ToolTurns) = 2

\* a JSON text with prose before it, or before and after it; the prose holds
\* no brace and no bracket
InProse(body) ==
    {<<"Sure", "!", " ", NL>> \o body,
     <<"Here", " ", "you", " ", "go", ":", NL>> \o body \o <<NL, "Enjoy", "!">>}

\* the objects and arrays of which the text holds the JSON text, in prose
SpansOf(text) ==
    {p \in Payloads : p.t \in {"obj", "arr"} /\ text \in InProse(Serialize(p))}

\* C13: when the cleaned text is not JSON but holds a single balanced JSON
\* span (an object or an array) in prose, the normalizer extracts exactly that
\* span and the value it parses is the value of the span parsed on its own.
C13_ExtractsEmbeddedSpan ==
    opt_pc \in {"PARSED", "RESPONDED"} =>
        \A p \in SpansOf(llm_response) :
            /\ json_str = Serialize(p)
            /\ parsed_response = json_loads(Serialize(p)).val

\* C14: for an agent text that is well-formed JSON as it stands, removing the
\* fence markers and parsing gives the value that parsing the original text
\* gives, also when strings inside the JSON hold fence markers.
C14_CleaningKeepsValue ==
    (opt_pc \in {"PARSED", "RESPONDED"} /\ json_loads(raw_response).ok)
        => parsed_response = json_loads(raw_response).val

\* the first reply arrived and held no tool call
FirstReplyHadNoTools == agent_calls >= 1 /\ failed # "first_call" /\ tool_calls = <<>>

\* C15: whenever the agent's first reply holds zero tool calls,
\* generate_recommendations raises nothing, executes no data-store query and
\* returns a result whose recommendations list is empty and whose follow-up
\* question is not empty.
C15_NoToolsBasicResponse ==
    FirstReplyHadNoTools =>
        /\ pc = "DONE"
        /\ failed = ""
        /\ queries = 0
        /\ executed = <<>>
        /\ {"recommendations", "follow_up_question"} \subseteq result.keys
        /\ result.recommendations = <<>>
        /\ result.follow_up_question # ""

C15_Witness ==
    /\ FirstReplyHadNoTools
    /\ pc = "DONE"
    /\ agent_calls = 1
    /\ result.text = ""

\* the rule that takes the payload: the first whose test the payload passes
RuleOf(p) ==
    IF p.t = "arr" THEN "list"
    ELSE IF Has(p, "options") THEN "options"
    ELSE IF Has(p, "food") /\ DictGet(p, "food", EmptyStr).t = "arr" THEN "food"
    ELSE "keyed"

\* the members of the payload a rule makes entries of, in the payload's order
SourceOf(p, rule) ==
    CASE rule = "list" -> p.v
      [] rule = "options" ->
             IF DictGet(p, "options", EmptyStr).t = "arr"
             THEN DictGet(p, "options", EmptyStr).v ELSE <<>>
      [] rule = "food" -> DictGet(p, "food", EmptyStr).v
      [] rule = "keyed" -> SelectSeq(p.v, LAMBDA m : m.v.t = "obj")

\* the entry a rule makes of a member
EntryOf(rule, x) ==
    CASE rule = "list" -> FromListItem(x)
      [] rule = "options" -> FromOptionsItem(x)
      [] rule = "food" -> FromFoodItem(x)
      [] rule = "keyed" -> FromKeyedValue(x)

\* the answer was made from a parsed payload
Normalized == opt_pc = "RESPONDED" /\ parsed_response # NotParsed /\ response.status = 200

\* C16: padding and truncation keep the order and invent nothing: of k < 3
\* entries the result holds the k entries first, in their order, then
\* placeholders named 'Default Option i' (i the position in the result) of
\* cuisine 'Mixed'; of more than 3 entries it holds the first 3 in order.
C16_PadTruncateKeepOrder ==
    Normalized =>
        LET src == SourceOf(parsed_response, RuleOf(parsed_response))
        IN  /\ Len(response.options) = OptionCount
            /\ \A i \in 1..OptionCount :
                  IF i <= Len(src)
                  THEN response.options[i] = EntryOf(RuleOf(parsed_response), src[i])
                  ELSE /\ response.options[i].item_name = JStr(<<"Default Option " \o ToString(i)>>)
                       /\ response.options[i].item_cuisine = JStr(<<"Mixed">>)

C16_Witness ==
    /\ Normalized
    /\ Len(SourceOf(parsed_response, RuleOf(parsed_response))) = 2
    /\ response.options[1] # response.options[2]
    /\ response.options[3] = DefaultOption(3)

\* the entries a rule makes of the first three members it reads
EntriesOf(p, rule) ==
    LET src == FirstThree(SourceOf(p, rule))
    IN  {EntryOf(rule, src[i]) : i \in {j \in 1..Len(src) : rule = "keyed" \/ src[j].t = "obj"}}

\* the entries of the answer that are not the placeholder of their position
OwnEntries(r) ==
    {r.options[i] : i \in {j \in 1..Len(r.options) : r.options[j] # DefaultOption(j)}}

\* C17 as stated: the rules are list of items, then options, then arbitrary
\* keyed map, and the first that matches alone gives the entries: an object
\* with an options key takes its entries from options only, an object without
\* one is handled by the keyed-map rule.
C17_ThreeRulePriority ==
    Normalized =>
        LET p == parsed_response
            rule == IF p.t = "arr" THEN "list"
                    ELSE IF Has(p, "options") THEN "options"
                    ELSE "keyed"
        IN  OwnEntries(response) = EntriesOf(p, rule)

\* C17 as amended: the rules are list of items, then options, then a food
\* list, then arbitrary keyed map, and the first whose test the payload passes
\* alone gives the entries: an object with an options key takes its entries
\* from options only, an object without one whose food field is a list takes
\* them from food only, any other object is handled by the keyed-map rule.
C17_FourRulePriority ==
    /\ Normalized => OwnEntries(response) = EntriesOf(parsed_response, RuleOf(parsed_response))
    /\ (opt_pc = "RESPONDED" /\ parsed_response # NotParsed /\ ~Normalized)
          => response.options = <<>>

C17_Witness ==
    /\ Normalized
    /\ RuleOf(parsed_response) = "food"
    /\ \E i \in 1..Len(parsed_response.v) : parsed_response.v[i].v.t = "obj"
    /\ OwnEntries(response) = {FromFoodItem(ItemA)}

\* system turn, user turn, agent turn with the tool requests, one tool-result
\* turn per request, the JSON-format prompt
TranscriptInOrder ==
    /\ Len(messages) = Len(tool_calls) + 4
    /\ messages[1] = Turn("system", SystemPrompt)
    /\ messages[2] = Turn("user", UserPrompt)
    /\ messages[3].role = "assistant"
    /\ messages[3].calls = tool_calls
    /\ \A i \in 1..Len(tool_calls) : messages[3 + i].role = "tool"
    /\ messages[Len(messages)] = Turn("user", JsonPrompt)

\* C18: the transcript of a request is append-only and ordered: a step only
\* appends turns and leaves the earlier ones as they were, and when the final
\* request is sent the order is system turn, user turn, agent turn with the
\* tool requests, the tool-result turns, the JSON-format prompt.
C18_TranscriptAppendOnly ==
    /\ [][/\ Len(messages') >= Len(messages)
           /\ SubSeq(messages', 1, Len(messages)) = messages]_vars
    /\ [](FinalRequestReady => TranscriptInOrder)

C18_Witness ==
    /\ final_requests = 1
    /\ Len(messages) = 6
    /\ messages[4].payload.kind = "error"
    /\ messages[5].payload.kind = "rows"

OutcomeAlone(r) == IF requests[r].has_orders THEN "ok" ELSE "no_history"

\* C20: two requests handled at once share no mutable state: under every
\* interleaving a request's transcript and tool results hold only turns made
\* for that request, a tool execution runs on a connection it opened itself
\* and has closed when it returns, and the request's outcome is the outcome
\* it has when handled alone.
C20_RequestsIsolated ==
    \A r \in DOMAIN requests :
        /\ \A i \in 1..Len(requests[r].messages) : requests[r].messages[i].request = r
        /\ \A i \in 1..Len(requests[r].tool_results) : requests[r].tool_results[i].request = r
        /\ requests[r].tool_conn # 0 =>
              /\ connections[requests[r].tool_conn].thread = r
              /\ requests[r].pc \in {"TOOL_DONE", "DONE"} => ~connections[requests[r].tool_conn].open
        /\ requests[r].pc = "DONE" => requests[r].outcome = OutcomeAlone(r)

\* the keys of a call's arguments are declared for the tool and hold every
\* parameter the schema requires
FitsSchemaNames(tc) ==
    /\ Keys(tc.arguments.kw) \subseteq Keys(ToolProperties(tc.name))
    /\ ToolRequired(tc.name) \subseteq Keys(tc.arguments.kw)

\* C21: the advertised schemas and the dispatcher agree: the advertised names
\* are the dispatched names, each tool's declared parameters are its handler's
\* parameters and its required parameters are the handler's parameters without
\* default; so a call of an advertised tool binds to the handler exactly when
\* its argument names fit the schema.
C21_SchemaMatchesDispatcher ==
    /\ ToolNames = DispatchNames
    /\ \A n \in ToolNames :
          /\ Keys(ToolProperties(n)) = HandlerParams(n)
          /\ ToolRequired(n) = HandlerRequired(n)
    /\ \A i \in 1..Len(executed) :
          (tool_calls[i].name \in ToolNames /\ tool_calls[i].arguments.json = "object")
              => (FitsSchemaNames(tool_calls[i])
                    <=> BindsOk(tool_calls[i].name, tool_calls[i].arguments.kw))

C21_Witness ==
    \E i \in 1..Len(executed) :
        /\ tool_calls[i].name = "search_restaurants"
        /\ Keys(tool_calls[i].arguments.kw) = {"search_term"}
        /\ executed[i].kind = "rows"
        /\ \E j \in 1..Len(executed) :
              /\ tool_calls[j].name = "search_menu_items"
              /\ ~FitsSchemaNames(tool_calls[j])
              /\ executed[j].kind = "raise"

\* the largest hard cap any query method states
LargestCap == CapRestaurantMenu

\* C22: every query the agent can invoke enforces a fixed maximum row count:
\* whatever the catalog holds, no tool result has more rows than the largest
\* cap, get_restaurant_ingredients (which takes no limit) included.
C22_EveryToolResultBounded ==
    last_call # NoCall => Len(last_out.rows) <= LargestCap

\* the expression matched a span and json.loads refused it
SpanUnparseable ==
    /\ opt_pc = "RESPONDED"
    /\ json_str # <<>>
    /\ ~json_loads(json_str).ok

\* C23: when the span extracted from the agent's text cannot be parsed, the
\* answer is the empty-shaped fallback: status 200, category 'food' and
\* exactly three entries whose item_name, item_img_url and item_cuisine are
\* empty strings, the same for every such text.
C23_UnparseableSpanFallback ==
    SpanUnparseable =>
        /\ response.status = 200
        /\ response.category = "food"
        /\ response.error = ""
        /\ Len(response.options) = 3
        /\ \A i \in 1..Len(response.options) :
              /\ DOMAIN response.options[i] = CanonicalFields
              /\ response.options[i].item_name = JStr(<<>>)
              /\ response.options[i].item_img_url = JStr(<<>>)
              /\ response.options[i].item_cuisine = JStr(<<>>)

C23_Witness ==
    /\ SpanUnparseable
    /\ response.status = 200
    /\ Len(json_str) >= 3
    /\ Len(json_str) < Len(llm_response)

\* the ids of the orders of a list
OrderIds(orders) == {orders[i].order_id : i \in 1..Len(orders)}

\* C24: order round trip: after POST /orders has succeeded the order is
\* 'pending', GET /orders/<order_id> returns the user id, restaurant id and
\* item list that were posted, and the order is in GET /users/<user_id>/orders
\* and in the `orders` id list of GET /users/<user_id>, after any sequence of
\* user and order creations.
C24_OrderRoundTrip ==
    (reply.op = "POST /orders" /\ reply.status = 201) =>
        LET posted == reply.args
            order_id == reply.body.order_id
            got == app_get_order(tables, cache, order_id)
            listed == app_get_user_orders(tables, cache, posted.user_id)
            user == app_get_user(tables, cache, posted.user_id)
        IN  /\ reply.body.status = "pending"
            /\ got.status = 200
            /\ got.body.status = "pending"
            /\ got.body.user_id = posted.user_id
            /\ got.body.restaurant_id = posted.restaurant_id
            /\ got.body.items = posted.items
            /\ listed.status = 200
            /\ order_id \in OrderIds(listed.body)
            /\ user.status = 200
            /\ order_id \in {user.body.orders[i] : i \in 1..Len(user.body.orders)}

\* a step of POST /users made with an email some user already has
PostsTakenEmail ==
    /\ uuids' # uuids
    /\ reply'.op = "POST /users"
    /\ EmailRows(tables, reply'.args.email) # <<>>

\* C25: create_user is idempotent on email: a call with an email that exists
\* stores no new user and returns the existing user, with the same user_id
\* and that user's current order ids; so there is at most one user per email.
C25_CreateUserIdempotent ==
    /\ [][PostsTakenEmail =>
            /\ tables'.users = tables.users
            /\ reply'.status = 201
            /\ reply'.body = db_get_user(tables, EmailRows(tables, reply'.args.email)[1].user_id)[1]]_vars
    /\ [](\A i, j \in 1..Len(tables.users) :
             tables.users[i].email = tables.users[j].email => i = j)

\* C26: GET /users/<user_id>/orders answers every user of the store with the
\* list of the user's orders, a user without orders included and whatever
\* the `users` dictionary holds, and answers 'User not found' only for a user
\* that does not exist.
C26_UserOrdersForEveryUser ==
    reply.op = "GET /users/<user_id>/orders" =>
        /\ UserRows(tables, reply.args) # <<>> =>
              /\ reply.status = 200
              /\ reply.body = db_get_user_orders(tables, reply.args)
        /\ reply.status = 404 =>
              /\ UserRows(tables, reply.args) = <<>>
              /\ CachedUser(cache, reply.args) = <<>>

\* the rows of the four tables that name the user
RowsOf(t, user_id) ==
    UserRows(t, user_id) \o OrderRows(t, user_id)
        \o SelectSeq(t.food_preferences, LAMBDA r : r.user_id = user_id)
        \o SelectSeq(t.user_notes, LAMBDA r : r.user_id = user_id)

\* C27: after a confirmed delete_user no row of users, orders,
\* food_preferences or user_notes names the deleted user; when a deletion
\* step fails the transaction is rolled back and no row is removed.
C27_DeleteUserRemovesAll ==
    /\ []((reply.op = "delete_user" /\ reply.body.outcome = "deleted")
             => RowsOf(tables, reply.args.user_id) = <<>>)
    /\ [][(reply'.op = "delete_user" /\ reply'.body.outcome = "rolled back")
             => tables' = tables]_vars

\* the connections thread r has opened
OpenedBy(r) == {c \in 1..Len(connections) : connections[c].thread = r}

\* the operation of thread r has connected and not yet reached its last close
InUse(r) == requests[r].pc \in {"CONNECTED", "GET_USER", "GET_USER_CONNECTED", "GET_USER_EXECUTED", "EXECUTED"}

\* C29: on the shared DatabaseManager every operation runs on, and closes,
\* the connection it opened: when an operation has returned no connection it
\* opened is still open, no close raises, and under every interleaving of
\* two operations db.conn is a connection of the operation that is using it.
C29_OwnConnectionOnly ==
    \A r \in DOMAIN requests :
        /\ requests[r].pc = "DONE" =>
              /\ \A c \in OpenedBy(r) : ~connections[c].open
              /\ requests[r].outcome # "error"
        /\ (InUse(r) /\ requests[r].outcome # "error") =>
              /\ manager_conn # 0
              /\ connections[manager_conn].thread = r

\* the statement changes rows or tables
Mutating(query) == \E i \in 1..Len(query) : Upper(query[i]) \in {"DELETE", "DROP", "INSERT", "UPDATE"}

\* the statement names a table that is not in the allowed list
OutsideAllowed(query) == \E n \in Referenced(query) : n \notin allowed_tables

\* C28: execute_safe_query refuses every query that contains a mutating
\* operation or references a table outside the allowed list: it answers
\* 'Query not allowed for security reasons' and the database is unchanged.
C28_OnlyAllowedSelects ==
    [][reply'.op = "execute_safe_query" =>
          LET query == reply'.args[1]
          IN  (Mutating(query) \/ OutsideAllowed(query)) =>
                  /\ reply'.body = Refusal
                  /\ tables' = tables]_vars

\* the instruction names no query the dispatcher can run: its type is
\* unknown, a field the type needs is missing, or no user id is given
NoRunnableQuery(query_data, user_id) ==
    LET query_type == DictGet(query_data, "query_type", EmptyStr)
    IN  \/ query_type \notin {JStr(<<n>>) : n \in {"restaurant_search", "menu_search",
               "popular_cuisines", "price_range", "user_favorite_cuisines", "user_favorite_items"}}
        \/ /\ query_type \in {JStr(<<"restaurant_search">>), JStr(<<"menu_search">>)}
           /\ ~Has(query_data, "search_term")
        \/ /\ query_type = JStr(<<"price_range">>)
           /\ ~(Has(query_data, "min_price") /\ Has(query_data, "max_price"))
        \/ /\ query_type \in {JStr(<<"user_favorite_cuisines">>), JStr(<<"user_favorite_items">>)}
           /\ user_id = VNone

\* a price bound of the instruction is not a number
BadPriceBound(query_data) ==
    /\ DictGet(query_data, "query_type", EmptyStr) = JStr(<<"price_range">>)
    /\ Has(query_data, "min_price")
    /\ Has(query_data, "max_price")
    /\ \E k \in {"min_price", "max_price"} :
           LET bound == DictGet(query_data, k, EmptyStr)
           IN  bound.t \in {"arr", "obj"} \/ bound = JLit("null")
               \/ (bound.t = "str" /\ \A n \in Numbers : bound.v # <<n>>)

\* C30: execute_db_query never raises: an instruction that is not valid
\* JSON yields the error 'Invalid query instruction format', any other
\* failure (a price bound that is not a number, a JSON value that is not an
\* object, a failing query) yields an error value, and an instruction with
\* an unknown type, a missing field or no user id yields the schema.
C30_ExecuteDbQueryNeverRaises ==
    reply.op = "execute_db_query" =>
        LET parsed == json_loads(reply.args[1])
            user_id == reply.args[2]
        IN  /\ reply.body.kind \in {"rows", "error", "schema"}
            /\ ~parsed.ok => reply.body = ErrorValue("Invalid query instruction format")
            /\ (parsed.ok /\ parsed.val.t # "obj") => reply.body.kind = "error"
            /\ (parsed.ok /\ parsed.val.t = "obj" /\ BadPriceBound(parsed.val)) =>
                   reply.body.kind = "error"
            /\ (parsed.ok /\ parsed.val.t = "obj" /\ NoRunnableQuery(parsed.val, user_id)) =>
                   reply.body = SchemaInfo

\* an instruction that parses has failed later, in float() or in a query
\* on a database that lost a table, and the caller holds an error value
C30_Witness ==
    /\ reply.op = "execute_db_query"
    /\ json_loads(reply.args[1]).ok
    /\ json_loads(reply.args[1]).val.t = "obj"
    /\ reply.body.kind = "error"


====
